---- MODULE Spec2Model ----
(***************************************************************************)
(* SINP (Semantic Intent Negotiation Protocol): the server and client      *)
(* state machines, the confidence calculus, the keyword interpreter and    *)
(* the length-framed connection loop, as one state machine.                *)
(*                                                                         *)
(* Conventions.                                                            *)
(*   - Option<T>: None is <<>>, Some(x) is <<x>>.                          *)
(*   - f64 confidences in [0,1] are integers in hundredths (0 .. 100); a   *)
(*     product a * b of two such values is (a * b) \div 100.  The values   *)
(*     used are chosen so that these products are exact.                   *)
(*   - Uuid::new_v4() is the next value of the counter nextId.             *)
(*   - Utc::now() is the value of clock (milliseconds).                    *)
(*   - A text is a sequence of lowercase words; "" is an empty piece       *)
(*     between two separators.                                             *)
(***************************************************************************)
EXTENDS Integers, Sequences, FiniteSets, TLC

None == <<>>
Some(x) == <<x>>
IsSome(o) == o # <<>>
Unwrap(o) == o[1]

Min(a, b) == IF a <= b THEN a ELSE b
Max(a, b) == IF a >= b THEN a ELSE b
Abs(a) == IF a < 0 THEN 0 - a ELSE a

(***************************************************************************)
(* Bounds of the model.                                                    *)
(***************************************************************************)
\* identifiers (message and conversation ids) a behaviour may draw
MaxId == 6
\* frames that may wait unread on the client-to-server side of the wire
MaxInFlight == 2
\* the clock advances by TickMs until it would pass MaxClock
TickMs == 5001
MaxClock == 5001
\* connections served at the same time
MaxConns == 2
MaxRegs == 2

(***************************************************************************)
(* Program constants.                                                      *)
(***************************************************************************)
DEFAULT_REPLAY_WINDOW_MS == 5000
replay_window_ms == 5000
max_message_size == 1024 * 1024
tau_exec == 85
tau_clarify == 50
tau_accept == 50
match_weight == 100
min_score == 20

DefaultThresholds ==
    [tau_exec |-> tau_exec, tau_clarify |-> tau_clarify, tau_accept |-> tau_accept]

(***************************************************************************)
(* sinp-core/src/state.rs                                                  *)
(***************************************************************************)
ServerStates ==
    {"Received", "Validating", "Interpreting", "Deciding", "Negotiating", "Done", "Failed"}

ClientStates == {"Init", "Pending", "Refining", "Satisfied", "Abandoned", "Failed"}

ServerEvents ==
    {"RequestReceived", "ValidationPassed", "ValidationFailed", "InterpretationComplete",
     "DecisionExecute", "DecisionClarify", "DecisionPropose", "DecisionRefuse",
     "ClientResponded", "ActionCompleted", "Error"}

ClientEvents ==
    {"IntentSubmitted", "RequestSent", "ResponseExecute", "ResponseClarify",
     "ResponsePropose", "ResponseRefuse", "ClarificationProvided", "ProposalAccepted",
     "ProposalRejected", "Abandoned", "Error"}

server_is_terminal(s) == s \in {"Done", "Failed"}

\* Failed reachable from everywhere, the terminal states included
server_valid_transitions_failing(s) ==
    CASE s = "Received" -> {"Validating", "Failed"}
      [] s = "Validating" -> {"Interpreting", "Failed"}
      [] s = "Interpreting" -> {"Deciding", "Failed"}
      [] s = "Deciding" -> {"Done", "Negotiating", "Failed"}
      [] s = "Negotiating" -> {"Received", "Done", "Failed"}
      [] OTHER -> {"Failed"}

server_valid_transitions(s) ==
    CASE s = "Received"     -> {"Validating", "Failed"}
      [] s = "Validating"   -> {"Interpreting", "Failed"}
      [] s = "Interpreting" -> {"Deciding", "Failed"}
      [] s = "Deciding"     -> {"Done", "Negotiating", "Failed"}
      [] s = "Negotiating"  -> {"Received", "Done", "Failed"}
      [] s = "Done"         -> {}
      [] s = "Failed"       -> {}

\* a check that lets every target through
server_can_transition_to_any(s, target) == target \in ServerStates

server_can_transition_to(s, target) == target \in server_valid_transitions(s)

client_is_terminal(s) == s \in {"Satisfied", "Abandoned", "Failed"}

client_valid_transitions(s) ==
    CASE s = "Init"      -> {"Pending", "Failed"}
      [] s = "Pending"   -> {"Refining", "Satisfied", "Failed"}
      [] s = "Refining"  -> {"Pending", "Abandoned", "Failed"}
      [] s = "Satisfied" -> {}
      [] s = "Abandoned" -> {}
      [] s = "Failed"    -> {}

\* a check that lets every target through
client_can_transition_to_any(s, target) == target \in ClientStates

client_can_transition_to(s, target) == target \in client_valid_transitions(s)

(***************************************************************************)
(* sinp-core/src/error.rs: errors are records; to_string is Display.       *)
(***************************************************************************)
ProtocolError(msg) == [kind |-> "Protocol", msg |-> msg]
ValidationError(msg) == [kind |-> "Validation", msg |-> msg]
TransportError(msg) == [kind |-> "Transport", msg |-> msg]
SerializationError == [kind |-> "Serialization", msg |-> "invalid json"]
ReplayDetected == [kind |-> "ReplayDetected", msg |-> ""]
NoError == [kind |-> "none", msg |-> ""]
CryptoError(msg) == [kind |-> "Crypto", msg |-> msg]
SignatureInvalid == [kind |-> "SignatureInvalid", msg |-> ""]

error_to_string(e) ==
    CASE e.kind = "Protocol"       -> <<"protocol error", e.msg>>
      [] e.kind = "Validation"     -> <<"validation error", e.msg>>
      [] e.kind = "Transport"      -> <<"transport error", e.msg>>
      [] e.kind = "Serialization"  -> <<"serialization error", e.msg>>
      [] e.kind = "ReplayDetected" -> <<"replay attack detected", "outside acceptable window">>
      [] OTHER                     -> <<"", "">>

(***************************************************************************)
(* sinp-core/src/confidence.rs                                             *)
(***************************************************************************)
\* f64 values are integers in hundredths; NaN is the one value that is not a
\* number.  The operations below are those of f64: a product with NaN is
\* NaN, while min and max return the other argument when one is NaN.
NaN == 0 - 1000000

f64_mul(a, b) == IF a = NaN \/ b = NaN THEN NaN ELSE (a * b) \div 100

f64_min(a, b) == IF a = NaN THEN b ELSE IF b = NaN THEN a ELSE Min(a, b)

f64_max(a, b) == IF a = NaN THEN b ELSE IF b = NaN THEN a ELSE Max(a, b)

\* the product without the clamp to [0,1]
compute_server_confidence_unclamped(rho, reliability, availability, policy_passed) ==
    IF ~policy_passed
    THEN 0
    ELSE f64_mul(f64_mul(rho, reliability), availability)

compute_server_confidence(rho, reliability, availability, policy_passed) ==
    IF ~policy_passed
    THEN 0
    ELSE f64_max(f64_min(f64_mul(f64_mul(rho, reliability), availability), 100), 0)

\* thresholds that must be exceeded, not merely met
decide_action_strict(phi_s, phi_c, thresholds, has_better_alternative, policy_violated, malformed) ==
    IF policy_violated \/ malformed THEN "REFUSE"
    ELSE IF phi_s > thresholds.tau_exec /\ phi_c > thresholds.tau_accept THEN "EXECUTE"
    ELSE IF has_better_alternative THEN "PROPOSE"
    ELSE "CLARIFY"

decide_action(phi_s, phi_c, thresholds, has_better_alternative, policy_violated, malformed) ==
    IF policy_violated \/ malformed THEN "REFUSE"
    ELSE IF phi_s >= thresholds.tau_exec /\ phi_c >= thresholds.tau_accept THEN "EXECUTE"
    ELSE IF has_better_alternative THEN "PROPOSE"
    ELSE IF phi_s < thresholds.tau_exec THEN "CLARIFY"
    ELSE "CLARIFY"

(***************************************************************************)
(* sinp-core/src/security.rs                                               *)
(***************************************************************************)
\* A string is the sequence of its characters.
IsWhitespace(ch) == ch \in {" ", "\n", "\t"}

char_to_lowercase(ch) ==
    CASE ch = "A" -> "a"
      [] ch = "B" -> "b"
      [] ch = "S" -> "s"
      [] ch = "U" -> "u"
      [] OTHER    -> ch

to_lowercase(s) == [i \in 1..Len(s) |-> char_to_lowercase(s[i])]

RECURSIVE trim_start(_)
trim_start(s) ==
    IF s # <<>> /\ IsWhitespace(Head(s)) THEN trim_start(Tail(s)) ELSE s

RECURSIVE trim_end(_)
trim_end(s) ==
    IF s # <<>> /\ IsWhitespace(s[Len(s)]) THEN trim_end(SubSeq(s, 1, Len(s) - 1)) ELSE s

trim(s) == trim_end(trim_start(s))

\* the maximal runs of characters that are not whitespace
RECURSIVE split_whitespace(_)
split_whitespace(s) ==
    LET t == trim_start(s)
        stops == {i \in 1..Len(t) : IsWhitespace(t[i])}
        n == IF stops = {} THEN Len(t) + 1 ELSE CHOOSE i \in stops : \A j \in stops : i <= j
    IN  IF t = <<>> THEN <<>>
        ELSE <<SubSeq(t, 1, n - 1)>> \o split_whitespace(SubSeq(t, n, Len(t)))

RECURSIVE join(_, _)
join(words, sep) ==
    IF words = <<>> THEN <<>>
    ELSE IF Len(words) = 1 THEN words[1]
    ELSE words[1] \o sep \o join(Tail(words), sep)

normalize(s) == join(split_whitespace(to_lowercase(trim(s))), <<" ">>)

\* SHA-256 followed by the hex encoding, taken as collision free: the digest
\* of a byte string is the byte string behind a tag, so no digest is the
\* empty string
Sha256Hex(bytes) == <<"sha256">> \o bytes

Context(context_type, content, hash) ==
    [context_type |-> context_type, content |-> content, semantic_hash |-> hash]

\* the hash of the strings as they are given
semantic_hash_raw(intent, context) ==
    Sha256Hex(intent \o <<"|", "|">> \o context.content)

semantic_hash(intent, context) ==
    Sha256Hex(normalize(intent) \o <<"|", "|">> \o normalize(context.content))

validate_semantic_hash(intent, context) ==
    semantic_hash(intent, context) = context.semantic_hash

\* serde_json::to_value of a request: an object of its fields, an optional
\* field being left out when it is None
OptionalFields == {"in_response_to", "signature"}

to_value(request) ==
    LET keys == {k \in DOMAIN request : ~(k \in OptionalFields /\ request[k] = None)}
    IN  [k \in keys |-> IF k \in OptionalFields THEN Unwrap(request[k]) ELSE request[k]]

remove(value, key) == [k \in DOMAIN value \ {key} |-> value[k]]

\* the field names of a request in lexicographic order
SortedKeys ==
    <<"confidence", "conversation_id", "in_response_to", "intent", "message_id",
      "signature", "timestamp">>

\* canonicalize_json of an object: its members in the order of their keys
canonicalize_json(value) ==
    LET Has(k) == k \in DOMAIN value
        keys == SelectSeq(SortedKeys, Has)
    IN  [i \in 1..Len(keys) |-> <<keys[i], value[keys[i]]>>]

\* Ed25519, taken as unforgeable: a signature names the key pair that made it
\* and the bytes it was made for
SIGNATURE_LENGTH == 64

ed25519_sign(signing_key, bytes) ==
    [len |-> SIGNATURE_LENGTH, pair |-> signing_key.pair, message |-> bytes]

ed25519_verify(verifying_key, bytes, signature) ==
    signature.pair = verifying_key.pair /\ signature.message = bytes

base64_encode(bytes) == <<"base64", bytes>>

is_base64(text) == Len(text) = 2 /\ text[1] = "base64"

sign_message(request, signing_key) ==
    LET value == remove(to_value(request), "signature")
        canonical == canonicalize_json(value)
    IN  base64_encode(ed25519_sign(signing_key, canonical))

\* verification over the request as it is, its signature field included
verify_signature_keeping_field(request, verifying_key) ==
    IF request.signature = None THEN CryptoError("No signature present")
    ELSE IF ~is_base64(Unwrap(request.signature)) THEN CryptoError("Invalid base64")
    ELSE IF Unwrap(request.signature)[2].len # SIGNATURE_LENGTH
    THEN CryptoError("Invalid signature format")
    ELSE IF ed25519_verify(verifying_key, canonicalize_json(to_value(request)),
                           Unwrap(request.signature)[2])
    THEN NoError
    ELSE SignatureInvalid

\* verify_signature: NoError stands for Ok(())
verify_signature(request, verifying_key) ==
    IF request.signature = None THEN CryptoError("No signature present")
    ELSE IF ~is_base64(Unwrap(request.signature)) THEN CryptoError("Invalid base64")
    ELSE IF Unwrap(request.signature)[2].len # SIGNATURE_LENGTH
    THEN CryptoError("Invalid signature format")
    ELSE IF ed25519_verify(verifying_key,
                           canonicalize_json(remove(to_value(request), "signature")),
                           Unwrap(request.signature)[2])
    THEN NoError
    ELSE SignatureInvalid

\* a window whose edge is already outside
check_replay_strict(now, message_timestamp, window_ms) ==
    LET window == IF IsSome(window_ms) THEN Unwrap(window_ms) ELSE DEFAULT_REPLAY_WINDOW_MS
        diff == now - message_timestamp
    IN  IF Abs(diff) >= window THEN ReplayDetected ELSE NoError

\* the window taken as seconds against a difference in milliseconds
check_replay_seconds(now, message_timestamp, window_ms) ==
    LET window == IF IsSome(window_ms) THEN Unwrap(window_ms) ELSE DEFAULT_REPLAY_WINDOW_MS
        diff == now - message_timestamp
    IN  IF Abs(diff) > window * 1000 THEN ReplayDetected ELSE NoError

check_replay(now, message_timestamp, window_ms) ==
    LET window == IF IsSome(window_ms) THEN Unwrap(window_ms) ELSE DEFAULT_REPLAY_WINDOW_MS
        diff == now - message_timestamp
    IN  IF Abs(diff) > window THEN ReplayDetected ELSE NoError

(***************************************************************************)
(* sinp-core/src/interpreter.rs: KeywordInterpreter                        *)
(***************************************************************************)
Range(seq) == {seq[i] : i \in 1..Len(seq)}

RECURSIVE Concat(_)
Concat(seqs) == IF seqs = <<>> THEN <<>> ELSE Head(seqs) \o Concat(Tail(seqs))

IsWord(w) == w # ""

\* split on non-alphanumeric characters and drop the empty pieces
tokenize(text) == SelectSeq(text, IsWord)

capability_keywords(cap) ==
    tokenize(cap.description)
        \o Concat([i \in 1..Len(cap.inputs) |-> tokenize(cap.inputs[i])])
        \o tokenize(cap.id)

score(intent_tokens, cap) ==
    LET cap_keywords == capability_keywords(cap)
        matches == Cardinality({i \in 1..Len(cap_keywords) :
                                  cap_keywords[i] \in Range(intent_tokens)})
    IN  IF cap_keywords = <<>>
        THEN 0
        ELSE (((matches * 100) \div Len(cap_keywords)) * match_weight) \div 100

\* Vec::sort_by is stable: x goes after every element that does not compare
\* greater than it under b.0.partial_cmp(&a.0), i.e. after every score >= x's.
RECURSIVE InsertByScore(_, _)
InsertByScore(sorted, x) ==
    IF sorted = <<>> THEN <<x>>
    ELSE IF Head(sorted).score >= x.score
         THEN <<Head(sorted)>> \o InsertByScore(Tail(sorted), x)
         ELSE <<x>> \o sorted

RECURSIVE SortByScoreDesc(_)
SortByScoreDesc(seq) ==
    IF seq = <<>> THEN <<>>
    ELSE InsertByScore(SortByScoreDesc(SubSeq(seq, 1, Len(seq) - 1)), seq[Len(seq)])

Skip(seq, n) == SubSeq(seq, n + 1, Len(seq))
Take(seq, n) == SubSeq(seq, 1, Min(n, Len(seq)))

\* a filter that lets every score through
MeetsMinScore_any(e) == TRUE

MeetsMinScore(e) == e.score >= min_score

interpret(intent, capabilities) ==
    LET intent_tokens == tokenize(intent)
        scores == SortByScoreDesc([i \in 1..Len(capabilities) |->
                     [score |-> score(intent_tokens, capabilities[i]),
                      cap |-> capabilities[i]]])
        best_score == IF scores = <<>> THEN 0 ELSE scores[1].score
        capability == IF scores # <<>> /\ scores[1].score >= min_score
                      THEN Some(scores[1].cap) ELSE None
        alts == SelectSeq(Take(Skip(scores, 1), 3), MeetsMinScore)
    IN  [interpretation |-> IF IsSome(capability)
                            THEN <<"Execute", Unwrap(capability).id, intent>>
                            ELSE <<"No matching capability found">>,
         capability |-> capability,
         raw_confidence |-> best_score,
         alternatives |-> [i \in 1..Len(alts) |->
                             [interpretation |-> <<"Use", alts[i].cap.id>>,
                              capability |-> alts[i].cap,
                              confidence |-> alts[i].score]]]

(***************************************************************************)
(* sinp-server/src/capability.rs: CapabilityRegistry.  A registry is the   *)
(* sequence of its entries in the iteration order of the map.              *)
(***************************************************************************)
Capability(id, description, inputs, cost) ==
    [id |-> id, description |-> description, inputs |-> inputs,
     privacy_level |-> "public", cost_units |-> cost]

\* f64::clamp: NaN stays NaN
Clamp(x, lo, hi) ==
    IF x = NaN THEN NaN ELSE IF x < lo THEN lo ELSE IF x > hi THEN hi ELSE x

\* register that keeps the first registration of an id
register_keep_first(reg, capability, handler, reliability) ==
    LET entry == [capability |-> capability, handler |-> handler,
                  reliability |-> Clamp(reliability, 0, 100)]
    IN  IF \E i \in 1..Len(reg) : reg[i].capability.id = capability.id
        THEN reg
        ELSE Append(reg, entry)

\* register: a later registration of the same id replaces the earlier entry
register(reg, capability, handler, reliability) ==
    LET entry == [capability |-> capability, handler |-> handler,
                  reliability |-> Clamp(reliability, 0, 100)]
        IsId(e) == e.capability.id = capability.id
    IN  IF \E i \in 1..Len(reg) : IsId(reg[i])
        THEN [i \in 1..Len(reg) |-> IF IsId(reg[i]) THEN entry ELSE reg[i]]
        ELSE Append(reg, entry)

\* the registry the server is started with: two capabilities, as in main.rs
EchoCap == Capability(<<"echo">>, <<"say">>, <<>>, 10)
HelpCap == Capability(<<"help">>, <<"say", "", "help", "list">>, <<>>, 10)

Registry == register(register(<<>>, EchoCap, "echo_handler", 100), HelpCap, "help_handler", 80)

\* The registry is a HashMap: values() and keys() visit its entries in an
\* order that the hasher decides, not the order of registration.  order is
\* that order, as a permutation of the entries in registration order.
IterationOrders(n) ==
    {order \in [1..n -> 1..n] : \A i, j \in 1..n : order[i] = order[j] => i = j}

hash_map_values(reg, order) == [i \in 1..Len(reg) |-> reg[order[i]]]

\* the started registry in each order its map can have
RegistryOrders == {hash_map_values(Registry, order) : order \in IterationOrders(Len(Registry))}

capability_ids(reg) == [i \in 1..Len(reg) |-> reg[i].capability.id]

capabilities(reg) == [i \in 1..Len(reg) |-> reg[i].capability]

get_reliability(reg, id) ==
    IF \E i \in 1..Len(reg) : reg[i].capability.id = id
    THEN (CHOOSE e \in Range(reg) : e.capability.id = id).reliability
    ELSE 0

\* the policy hook: the outcome is the environment's (the reference stub
\* answers TRUE); policy is the answer the hook gives for this request
check_policy(reg, request, policy) == policy

registry_interpret(reg, intent) == interpret(intent, capabilities(reg))

\* execute: handler_ok is whether the user handler returns Ok for this request
execute(reg, id, request, handler_ok) ==
    IF ~(\E i \in 1..Len(reg) : reg[i].capability.id = id)
    THEN [ok |-> FALSE, err |-> ProtocolError("Capability not found"), value |-> None]
    ELSE IF handler_ok
         THEN [ok |-> TRUE, err |-> NoError,
               value |-> Some(<<(CHOOSE e \in Range(reg) : e.capability.id = id).handler,
                                request.intent>>)]
         ELSE [ok |-> FALSE, err |-> ProtocolError("handler failed"), value |-> None]

(***************************************************************************)
(* sinp-core/src/message.rs                                                *)
(***************************************************************************)
\* Request::new: message_id and conversation_id are fresh
Request_new(intent, confidence, message_id, conversation_id, now) ==
    [message_id |-> message_id, in_response_to |-> None,
     conversation_id |-> conversation_id, timestamp |-> now,
     intent |-> intent, confidence |-> confidence]

\* Request::reply
Request_reply(previous, intent, confidence, message_id, now) ==
    [message_id |-> message_id, in_response_to |-> Some(previous.message_id),
     conversation_id |-> previous.conversation_id, timestamp |-> now,
     intent |-> intent, confidence |-> confidence]

\* a default that carries an empty questions list
NoMetadata_questions ==
    [result |-> None, questions |-> Some(<<>>), reason_code |-> None, reason |-> None]

NoMetadata == [result |-> None, questions |-> None, reason_code |-> None, reason |-> None]

\* Response::to_request
Response_to_request(request, responder, interpretation, action, confidence, message_id) ==
    [message_id |-> message_id, in_response_to |-> request.message_id,
     conversation_id |-> request.conversation_id, responder |-> responder,
     interpretation |-> interpretation, action |-> action,
     action_metadata |-> None, alternatives |-> None, confidence |-> confidence]

(***************************************************************************)
(* sinp-server/src/state_machine.rs: ServerStateMachine.  A machine is     *)
(* [state, conversation_id, last_message_id].                              *)
(***************************************************************************)
ServerStateMachine_new == [state |-> "Received", conversation_id |-> None,
                           last_message_id |-> None]

\* the match of transition: the target state, or "invalid" for the catch-all arm
server_transition_target(state, event) ==
    CASE state = "Received" /\ event = "RequestReceived" -> "Validating"
      [] state = "Validating" /\ event = "ValidationPassed" -> "Interpreting"
      [] state = "Validating" /\ event = "ValidationFailed" -> "Failed"
      [] state = "Interpreting" /\ event = "InterpretationComplete" -> "Deciding"
      [] state = "Deciding" /\ event = "DecisionExecute" -> "Done"
      [] state = "Deciding" /\ event = "DecisionClarify" -> "Negotiating"
      [] state = "Deciding" /\ event = "DecisionPropose" -> "Negotiating"
      [] state = "Deciding" /\ event = "DecisionRefuse" -> "Done"
      [] state = "Done" /\ event = "ActionCompleted" -> "Done"
      [] state = "Negotiating" /\ event = "ClientResponded" -> "Received"
      [] event = "Error" -> "Failed"
      [] OTHER -> "invalid"

\* transition: [ok, sm, err]; the state changes only when ok
server_transition(sm, event) ==
    LET new_state == server_transition_target(sm.state, event)
    IN  IF new_state = "invalid"
        THEN [ok |-> FALSE, sm |-> sm, err |-> ProtocolError("Invalid transition")]
        ELSE IF server_can_transition_to(sm.state, new_state)
             THEN [ok |-> TRUE, sm |-> [sm EXCEPT !.state = new_state], err |-> NoError]
             ELSE [ok |-> FALSE, sm |-> sm, err |-> ProtocolError("Invalid state transition")]

\* a reset that only rewinds the state
server_reset_state_only(sm) == [sm EXCEPT !.state = "Received"]

\* a reset that keeps the id of the last response
server_reset_keep_last(sm) ==
    [state |-> "Received", conversation_id |-> None, last_message_id |-> sm.last_message_id]

server_reset(sm) == [state |-> "Received", conversation_id |-> None, last_message_id |-> None]

\* what a call of process_request gives back: the machine afterwards, Ok(response)
\* or Err(err), the states the machine went through, and whether a handler ran
Returned(sm, ok, response, err, path, invoked) ==
    [sm |-> sm, ok |-> ok, response |-> response, err |-> err, path |-> path,
     invoked |-> invoked]

\* a validation exit that returns the error without firing ValidationFailed
validation_failed_in_place(sm, err, path) == Returned(sm, FALSE, None, err, path, None)

\* the ValidationFailed exits of process_request
validation_failed(sm, err, path) ==
    LET t == server_transition(sm, "ValidationFailed")
    IN  IF ~t.ok
        THEN Returned(sm, FALSE, None, t.err, path, None)
        ELSE Returned(t.sm, FALSE, None, err, Append(path, t.sm.state), None)

\* the match on the decided action: the event fired, then the metadata
act_event(action) ==
    CASE action = "EXECUTE" -> "DecisionExecute"
      [] action = "CLARIFY" -> "DecisionClarify"
      [] action = "PROPOSE" -> "DecisionPropose"
      [] action = "REFUSE"  -> "DecisionRefuse"

\* a refusal that always reports a malformed context
refusal_code_malformed(policy_passed, capability) == "malformed_context"

refusal_code(policy_passed, capability) ==
    IF ~policy_passed THEN "policy_violation"
    ELSE IF ~IsSome(capability) THEN "capability_missing"
    ELSE "malformed_context"

DefaultQuestions == <<"Could you provide more details?", "What specific action would you like?">>

\* a PROPOSE that lists nothing
to_alternatives_none(alternatives) == <<>>

to_alternatives(alternatives) ==
    [i \in 1..Len(alternatives) |->
        [interpretation |-> alternatives[i].interpretation,
         confidence |-> alternatives[i].confidence,
         estimated_cost |-> Some(alternatives[i].capability.cost_units),
         capability_id |-> alternatives[i].capability.id]]

\* lines 80-94: (phi_s, policy_passed)
server_confidence(reg, request, result, policy) ==
    IF IsSome(result.capability)
    THEN LET reliability == get_reliability(reg, Unwrap(result.capability).id)
             availability == 100
             pol == check_policy(reg, request, policy)
         IN  [phi_s |-> compute_server_confidence(result.raw_confidence, reliability,
                                                  availability, pol),
              policy_passed |-> pol]
    ELSE [phi_s |-> 0, policy_passed |-> TRUE]

\* any alternative counts as a better one
has_better_alternative_any(has_alternatives, phi_s, thresholds) == has_alternatives

\* line 102: the has_better_alternative argument of decide_action
has_better_alternative(has_alternatives, phi_s, thresholds) ==
    has_alternatives /\ phi_s < thresholds.tau_exec

\* a server that runs the selected capability whatever was decided
runs_handler_any(action, capability) == IsSome(capability)

\* lines 125-129: registry.execute is called in the Execute arm alone, and
\* there only when a capability was selected
runs_handler(action, capability) == action = "EXECUTE" /\ IsSome(capability)

\* lines 96-185, entered in state Deciding
decide_and_act(sm, request, reg, config, result, policy, handler_ok, response_id, path) ==
    LET conf == server_confidence(reg, request, result, policy)
        phi_s == conf.phi_s
        policy_passed == conf.policy_passed
        has_alternatives == result.alternatives # <<>>
        action == decide_action(phi_s, request.confidence, config.thresholds,
                                has_better_alternative(has_alternatives, phi_s,
                                                       config.thresholds),
                                ~policy_passed, FALSE)
        responder == [id |-> "sinp-server", capabilities |-> capability_ids(reg)]
        interpretation == [text |-> result.interpretation, confidence |-> phi_s]
        response == Response_to_request(request, responder, interpretation, action,
                                        phi_s, response_id)
        t == server_transition(sm, act_event(action))
        path2 == Append(path, t.sm.state)
        run == IF runs_handler(action, result.capability)
               THEN execute(reg, Unwrap(result.capability).id, request, handler_ok)
               ELSE [ok |-> TRUE, err |-> NoError, value |-> Some(<<"null">>)]
        invoked == IF runs_handler(action, result.capability)
                   THEN Some(Unwrap(result.capability).id) ELSE None
        metadata ==
            CASE action = "EXECUTE" -> [NoMetadata EXCEPT !.result = run.value]
              [] action = "CLARIFY" -> [NoMetadata EXCEPT !.questions = Some(DefaultQuestions)]
              [] action = "PROPOSE" -> NoMetadata
              [] action = "REFUSE"  ->
                   [NoMetadata EXCEPT
                      !.reason_code = Some(refusal_code(policy_passed, result.capability)),
                      !.reason = Some(<<"Request refused",
                                        refusal_code(policy_passed, result.capability)>>)]
        final == [response EXCEPT
                    !.action_metadata = Some(metadata),
                    !.alternatives = IF action = "PROPOSE"
                                     THEN Some(to_alternatives(result.alternatives))
                                     ELSE None]
    IN  IF ~t.ok THEN Returned(sm, FALSE, None, t.err, path, None)
        ELSE IF ~run.ok THEN Returned(t.sm, FALSE, None, run.err, path2, invoked)
        ELSE Returned([t.sm EXCEPT !.last_message_id = Some(final.message_id)],
                      TRUE, Some(final), NoError, path2, invoked)

\* lines 69-78, entered in state Validating after the checks passed
interpret_and_decide(sm, request, reg, config, policy, handler_ok, response_id, path) ==
    LET t1 == server_transition(sm, "ValidationPassed")
        result == registry_interpret(reg, request.intent)
        t2 == server_transition(t1.sm, "InterpretationComplete")
    IN  IF ~t1.ok THEN Returned(sm, FALSE, None, t1.err, path, None)
        ELSE IF ~t2.ok
             THEN Returned(t1.sm, FALSE, None, t2.err, Append(path, t1.sm.state), None)
             ELSE decide_and_act(t2.sm, request, reg, config, result, policy, handler_ok,
                                 response_id, path \o <<t1.sm.state, t2.sm.state>>)

\* lines 62-67: the follow-up check
check_follow_up(sm, request, reg, config, policy, handler_ok, response_id, path) ==
    IF IsSome(sm.last_message_id) /\ ~IsSome(request.in_response_to)
    THEN validation_failed(sm, ValidationError("Missing in_response_to for follow-up"), path)
    ELSE interpret_and_decide(sm, request, reg, config, policy, handler_ok, response_id, path)

\* lines 51-60: conversation continuity
check_continuity(sm, request, reg, config, policy, handler_ok, response_id, path) ==
    IF IsSome(sm.conversation_id)
    THEN IF request.conversation_id # Unwrap(sm.conversation_id)
         THEN validation_failed(sm, ValidationError("Conversation ID mismatch"), path)
         ELSE check_follow_up(sm, request, reg, config, policy, handler_ok, response_id, path)
    ELSE check_follow_up([sm EXCEPT !.conversation_id = Some(request.conversation_id)],
                         request, reg, config, policy, handler_ok, response_id, path)

\* process_request.  now is Utc::now() inside check_replay; policy and handler_ok
\* are the answers of the policy hook and of the user handler for this request;
\* response_id is the fresh message_id of the response.
process_request(sm, request, reg, config, now, policy, handler_ok, response_id) ==
    LET t == server_transition(sm, "RequestReceived")
        path == <<sm.state, t.sm.state>>
        replay == check_replay(now, request.timestamp, Some(config.replay_window_ms))
    IN  IF ~t.ok THEN Returned(sm, FALSE, None, t.err, <<sm.state>>, None)
        ELSE IF replay.kind # "none" THEN validation_failed(t.sm, replay, path)
        ELSE check_continuity(t.sm, request, reg, config, policy, handler_ok,
                              response_id, path)

(***************************************************************************)
(* sinp-server/src/config.rs                                               *)
(***************************************************************************)
ServerConfig_default ==
    [thresholds |-> DefaultThresholds, replay_window_ms |-> replay_window_ms,
     max_message_size |-> max_message_size]

(***************************************************************************)
(* sinp-server/src/handler.rs                                              *)
(***************************************************************************)
\* a reply that names itself instead of the request it answers
create_error_response_self(request, error, message_id) ==
    [message_id |-> message_id, in_response_to |-> message_id,
     conversation_id |-> request.conversation_id,
     responder |-> [id |-> "sinp-server", capabilities |-> <<>>],
     interpretation |-> [text |-> <<"Error processing request">>, confidence |-> 0],
     action |-> "REFUSE",
     action_metadata |-> Some([NoMetadata EXCEPT
                                 !.reason_code = Some("malformed_context"),
                                 !.reason = Some(error_to_string(error))]),
     alternatives |-> None, confidence |-> 0]

create_error_response(request, error, message_id) ==
    [message_id |-> message_id, in_response_to |-> request.message_id,
     conversation_id |-> request.conversation_id,
     responder |-> [id |-> "sinp-server", capabilities |-> <<>>],
     interpretation |-> [text |-> <<"Error processing request">>, confidence |-> 0],
     action |-> "REFUSE",
     action_metadata |-> Some([NoMetadata EXCEPT
                                 !.reason_code = Some("malformed_context"),
                                 !.reason = Some(error_to_string(error))]),
     alternatives |-> None, confidence |-> 0]

(***************************************************************************)
(* sinp-client/src/state_machine.rs: ClientStateMachine.  A machine is     *)
(* [state, conversation_id, last_response].                                *)
(***************************************************************************)
ClientStateMachine_new == [state |-> "Init", conversation_id |-> None,
                           last_response |-> None]

client_transition_target(state, event) ==
    CASE state = "Init" /\ event = "RequestSent" -> "Pending"
      [] state = "Pending" /\ event = "ResponseExecute" -> "Satisfied"
      [] state = "Pending" /\ event = "ResponseClarify" -> "Refining"
      [] state = "Pending" /\ event = "ResponsePropose" -> "Refining"
      [] state = "Pending" /\ event = "ResponseRefuse" -> "Failed"
      [] state = "Refining" /\ event = "ClarificationProvided" -> "Pending"
      [] state = "Refining" /\ event = "ProposalAccepted" -> "Pending"
      [] state = "Refining" /\ event = "ProposalRejected" -> "Pending"
      [] state = "Refining" /\ event = "Abandoned" -> "Abandoned"
      [] state = "Refining" /\ event = "RequestSent" -> "Pending"
      [] event = "Error" -> "Failed"
      [] OTHER -> "invalid"

client_transition(sm, event) ==
    LET new_state == client_transition_target(sm.state, event)
    IN  IF new_state = "invalid"
        THEN [ok |-> FALSE, sm |-> sm, err |-> ProtocolError("Invalid transition")]
        ELSE IF client_can_transition_to(sm.state, new_state)
             THEN [ok |-> TRUE, sm |-> [sm EXCEPT !.state = new_state], err |-> NoError]
             ELSE [ok |-> FALSE, sm |-> sm, err |-> ProtocolError("Invalid state transition")]

on_request_sent(sm, request) ==
    client_transition(IF sm.state = "Init"
                      THEN [sm EXCEPT !.conversation_id = Some(request.conversation_id)]
                      ELSE sm,
                      "RequestSent")

response_event(action) ==
    CASE action = "EXECUTE" -> "ResponseExecute"
      [] action = "CLARIFY" -> "ResponseClarify"
      [] action = "PROPOSE" -> "ResponsePropose"
      [] action = "REFUSE"  -> "ResponseRefuse"

unwrap_or(o, default) == IF IsSome(o) THEN Unwrap(o) ELSE default

metadata_field(response, field) ==
    IF IsSome(response.action_metadata) THEN Unwrap(response.action_metadata)[field] ELSE None

\* the variant chosen by what the response carries
next_action_by_payload(response) ==
    IF IsSome(metadata_field(response, "questions"))
    THEN [kind |-> "Clarify", payload |-> Unwrap(metadata_field(response, "questions"))]
    ELSE IF IsSome(response.alternatives)
    THEN [kind |-> "Propose", payload |-> Unwrap(response.alternatives)]
    ELSE IF IsSome(metadata_field(response, "reason"))
    THEN [kind |-> "Refused", payload |-> Unwrap(metadata_field(response, "reason"))]
    ELSE [kind |-> "Done", payload |-> <<>>]

next_action(response) ==
    CASE response.action = "EXECUTE" -> [kind |-> "Done", payload |-> <<>>]
      [] response.action = "CLARIFY" ->
           [kind |-> "Clarify",
            payload |-> unwrap_or(metadata_field(response, "questions"), <<>>)]
      [] response.action = "PROPOSE" ->
           [kind |-> "Propose", payload |-> unwrap_or(response.alternatives, <<>>)]
      [] response.action = "REFUSE" ->
           [kind |-> "Refused",
            payload |-> unwrap_or(metadata_field(response, "reason"), <<"Request refused">>)]

\* on_response_received: last_response is stored before the transition is tried
on_response_received(sm, response) ==
    LET t == client_transition([sm EXCEPT !.last_response = Some(response)],
                               response_event(response.action))
    IN  [ok |-> t.ok, sm |-> t.sm, err |-> t.err,
         next |-> IF t.ok THEN Some(next_action(response)) ELSE None]

on_clarification_provided(sm) == client_transition(sm, "ClarificationProvided")
on_proposal_accepted(sm) == client_transition(sm, "ProposalAccepted")
on_proposal_rejected(sm) == client_transition(sm, "ProposalRejected")
abandon(sm) == client_transition(sm, "Abandoned")
client_reset(sm) == [state |-> "Init", conversation_id |-> None, last_response |-> None]

(***************************************************************************)
(* sinp-client/src/lib.rs: SinpClient, up to the call of send_request.     *)
(* [ok, sm, err, request]: ok means the request is handed to the           *)
(* connection; otherwise the operation returns err and nothing is sent.    *)
(***************************************************************************)
\* build_context: the history joined by newlines, hashed with an empty intent
build_context(context_history) ==
    LET content == join(context_history, <<"\n">>)
        hash == semantic_hash(<<>>, Context("transcript", content, <<>>))
    IN  Context("transcript", content, hash)

UserPrefix == <<"U", "s", "e", "r", ":", " ">>

\* the intent and the context of the request send_intent builds: the intent
\* is pushed on the history before the context is built
send_intent_context(context_history, intent) ==
    [intent |-> intent,
     context |-> build_context(Append(context_history, UserPrefix \o intent))]

Prepared(ok, sm, err, request) == [ok |-> ok, sm |-> sm, err |-> err, request |-> request]

send_intent_prepare(sm, intent, confidence, message_id, conversation_id, now) ==
    LET request == Request_new(intent, confidence, message_id, conversation_id, now)
        t == on_request_sent(sm, request)
    IN  Prepared(t.ok, t.sm, t.err, IF t.ok THEN Some(request) ELSE None)

follow_up_transition(sm, op) ==
    CASE op = "respond_to_clarify" -> on_clarification_provided(sm)
      [] op = "accept_proposal"    -> on_proposal_accepted(sm)
      [] op = "reject_proposal"    -> on_proposal_rejected(sm)

\* respond_to_clarify, accept_proposal and reject_proposal share their shape
follow_up_prepare(sm, op, intent, confidence, message_id, now) ==
    IF ~IsSome(sm.last_response)
    THEN Prepared(FALSE, sm, ProtocolError("No previous response"), None)
    ELSE LET request == Request_reply(Unwrap(sm.last_response), intent, confidence,
                                      message_id, now)
             t1 == follow_up_transition(sm, op)
             t2 == on_request_sent(t1.sm, request)
         IN  IF ~t1.ok THEN Prepared(FALSE, sm, t1.err, None)
             ELSE IF ~t2.ok THEN Prepared(FALSE, t2.sm, t2.err, None)
             ELSE Prepared(TRUE, t2.sm, NoError, Some(request))

(***************************************************************************)
(* The state: one connection between a peer and the server.                *)
(***************************************************************************)
VARIABLES
    peer,      \* who is at the other end: "sdk" (a SinpClient) or "raw" (any other peer)
    clock,     \* Utc::now(), in milliseconds
    nextId,    \* the next fresh Uuid
    c2s,       \* frames written by the peer and not yet read by the server
    s2c,       \* responses written by the server and not yet read by the peer
    spc,       \* handle_stream: "read" (at read_exact), "write" (at send_response), "closed"
    server,    \* the connection's ServerStateMachine
    s_out,     \* at "write": the response being sent, and whether it is the error reply
    lastproc,  \* the last call of process_request: its arguments and what it returned
    reqlog,    \* message_id of every request parsed, in the order read
    resplog,   \* in_response_to of every response written, in the order written
    client,    \* the SinpClient's ClientStateMachine
    cpc,       \* the SinpClient: "idle", or "await" (inside send_request)
    cres,      \* what the last SinpClient operation returned
    lastsent,  \* the last request the SinpClient emitted, with the machine before it
    raw,       \* the raw peer: conversation id of its last request, last response read
    calc,      \* a pure function under evaluation: its name, arguments and result
    registry,  \* Server.registry: the Arc<CapabilityRegistry> every connection task shares
    conns      \* the connection tasks spawned by Server::run, when several are served

vars == <<calc, peer, clock, nextId, c2s, s2c, spc, server, s_out, lastproc, reqlog, resplog,
          client, cpc, cres, lastsent, raw, registry, conns>>

fixed == <<peer, calc, registry, conns>>
serverVars == <<spc, server, s_out, lastproc, reqlog, resplog>>
clientVars == <<client, cpc, cres, lastsent>>

Intents == {<<"echo", "say">>, <<"say">>, <<"other">>}
Confidences == {30, 90}
FollowUpOps == {"respond_to_clarify", "accept_proposal", "reject_proposal"}

\* serde_json::to_vec(request).len(): the frame's length prefix
json_len(request) == 256 + Len(request.intent)

RequestFrame(request) == [kind |-> "request", len |-> json_len(request), request |-> request]

ProtocolInit ==
    /\ peer \in {"sdk", "raw"}
    /\ clock = 0
    /\ nextId = 1
    /\ c2s = <<>>
    /\ s2c = <<>>
    /\ spc = "read"
    /\ server = ServerStateMachine_new
    /\ s_out = None
    /\ lastproc = [called |-> FALSE]
    /\ reqlog = <<>>
    /\ resplog = <<>>
    /\ client = ClientStateMachine_new
    /\ cpc = "idle"
    /\ cres = [op |-> "none"]
    /\ lastsent = None
    /\ raw = [conversation_id |-> None, last_response |-> None]
    /\ registry \in RegistryOrders

Init ==
    /\ ProtocolInit
    /\ conns = <<>>
    /\ calc = [fn |-> "none"]

Tick ==
    /\ clock + TickMs <= MaxClock
    /\ clock' = clock + TickMs
    /\ UNCHANGED <<fixed, nextId, c2s, s2c, serverVars, clientVars, raw>>

(***************************************************************************)
(* handle_stream: one iteration of the loop is a read step (read_exact,    *)
(* the size check, the parse, process_request) and a write step            *)
(* (send_response, then reset).                                            *)
(***************************************************************************)
\* a size check that refuses the limit itself
read_frame_exclusive(frame, config) ==
    IF frame.len >= config.max_message_size
    THEN [outcome |-> "too_large", body_read |-> FALSE,
          err |-> ValidationError("Message too large")]
    ELSE IF frame.kind # "request"
    THEN [outcome |-> "unparsable", body_read |-> TRUE, err |-> SerializationError]
    ELSE [outcome |-> "dispatch", body_read |-> TRUE, err |-> NoError]

\* lines 134-152: the size check on the length prefix, before the body is
\* read, then the body read and parsed
read_frame(frame, config) ==
    IF frame.len > config.max_message_size
    THEN [outcome |-> "too_large", body_read |-> FALSE,
          err |-> ValidationError("Message too large")]
    ELSE IF frame.kind # "request"
    THEN [outcome |-> "unparsable", body_read |-> TRUE, err |-> SerializationError]
    ELSE [outcome |-> "dispatch", body_read |-> TRUE, err |-> NoError]

\* a reader that does not wait for the pending write
AtRead_Pipelined == spc \in {"read", "write"} /\ c2s # <<>>

\* the loop is at read_exact with a frame to read
AtRead == spc = "read" /\ c2s # <<>>

\* line 136: the length prefix exceeds max_message_size: handle_stream returns Err
ServerRejectOversize ==
    /\ AtRead
    /\ read_frame(Head(c2s), ServerConfig_default).outcome = "too_large"
    /\ c2s' = Tail(c2s)
    /\ spc' = "closed"
    /\ UNCHANGED <<fixed, clock, nextId, s2c, server, s_out, lastproc, reqlog, resplog,
                   clientVars, raw>>

\* line 151: serde_json::from_slice fails: handle_stream returns Err
ServerRejectUnparsable ==
    /\ AtRead
    /\ read_frame(Head(c2s), ServerConfig_default).outcome = "unparsable"
    /\ c2s' = Tail(c2s)
    /\ spc' = "closed"
    /\ UNCHANGED <<fixed, clock, nextId, s2c, server, s_out, lastproc, reqlog, resplog,
                   clientVars, raw>>

\* lines 155-165: the response to send, and whether it is the error reply
reply_of(request, ret, message_id) ==
    IF ret.ok
    THEN [response |-> Unwrap(ret.response), error |-> FALSE]
    ELSE [response |-> create_error_response(request, ret.err, message_id), error |-> TRUE]

\* how a call of process_request ended, kept for the call after it
Outcome(call) ==
    IF call.called
    THEN [called |-> TRUE, ok |-> call.ret.ok, err |-> call.ret.err.kind,
          invoked |-> call.ret.invoked,
          action |-> IF call.ret.ok THEN Unwrap(call.ret.response).action ELSE "none",
          message_id |-> IF call.ret.ok THEN Some(Unwrap(call.ret.response).message_id)
                         ELSE None,
          conversation_id |-> call.request.conversation_id]
    ELSE [called |-> FALSE]

ServerProcess(policy, handler_ok) ==
    /\ AtRead
    /\ read_frame(Head(c2s), ServerConfig_default).outcome = "dispatch"
    /\ nextId <= MaxId
    /\ LET request == Head(c2s).request
           ret == process_request(server, request, registry, ServerConfig_default,
                                  clock, policy, handler_ok, nextId)
       IN  /\ server' = ret.sm
           /\ s_out' = Some(reply_of(request, ret, nextId))
           /\ lastproc' = [called |-> TRUE, before |-> server, request |-> request,
                           now |-> clock, policy |-> policy, ret |-> ret,
                           prev |-> Outcome(lastproc)]
           /\ reqlog' = Append(reqlog, request.message_id)
    /\ nextId' = nextId + 1
    /\ c2s' = Tail(c2s)
    /\ spc' = "write"
    /\ UNCHANGED <<fixed, clock, s2c, resplog, clientVars, raw>>

\* a loop that resets only after an error reply
after_send_errors_only(sm, error) == IF error THEN server_reset(sm) ELSE sm

\* lines 161-163 and 168-173: what the machine is after the reply is sent
after_send(sm, error) ==
    IF error THEN server_reset(sm)
    ELSE IF server_is_terminal(sm.state) THEN server_reset(sm)
    ELSE sm

ServerWrite ==
    /\ spc = "write"
    /\ s2c' = Append(s2c, Unwrap(s_out).response)
    /\ resplog' = Append(resplog, Unwrap(s_out).response.in_response_to)
    /\ server' = after_send(server, Unwrap(s_out).error)
    /\ s_out' = None
    /\ spc' = "read"
    /\ UNCHANGED <<fixed, clock, nextId, c2s, lastproc, reqlog, clientVars, raw>>

\* send_response fails with a transport error: handle_stream returns Err
ServerWriteFail ==
    /\ spc = "write"
    /\ s_out' = None
    /\ spc' = "closed"
    /\ UNCHANGED <<fixed, clock, nextId, c2s, s2c, server, lastproc, reqlog, resplog,
                   clientVars, raw>>

(***************************************************************************)
(* SinpClient operations: the part up to send_request, then the part after *)
(* the response has been read.                                             *)
(***************************************************************************)
Returns(op, from, ok, err, next, sent) ==
    [op |-> op, from |-> from, ok |-> ok, err |-> err, next |-> next, sent |-> sent]

\* the operation hands its request to the connection, or returns prepared.err
ClientStart(op, prepared, ids) ==
    /\ client' = prepared.sm
    /\ IF prepared.ok
       THEN /\ c2s' = Append(c2s, RequestFrame(Unwrap(prepared.request)))
            /\ cpc' = "await"
            /\ nextId' = nextId + ids
            /\ cres' = Returns(op, client.state, TRUE, NoError, None, TRUE)
            /\ lastsent' = Some([request |-> Unwrap(prepared.request), before |-> client])
       ELSE /\ cres' = Returns(op, client.state, FALSE, prepared.err, None, FALSE)
            /\ UNCHANGED <<c2s, cpc, nextId, lastsent>>
    /\ UNCHANGED <<fixed, clock, s2c, serverVars, raw>>

SendIntent(intent, confidence) ==
    /\ peer = "sdk"
    /\ cpc = "idle"
    /\ nextId + 1 <= MaxId
    /\ Len(c2s) < MaxInFlight
    /\ ClientStart("send_intent",
                   send_intent_prepare(client, intent, confidence, nextId, nextId + 1, clock),
                   2)

FollowUp(op, intent, confidence) ==
    /\ peer = "sdk"
    /\ cpc = "idle"
    /\ nextId <= MaxId
    /\ Len(c2s) < MaxInFlight
    /\ ClientStart(op, follow_up_prepare(client, op, intent, confidence, nextId, clock), 1)

RespondToClarify(answers, confidence) == FollowUp("respond_to_clarify", answers, confidence)

AcceptProposal(alternative, confidence) ==
    FollowUp("accept_proposal", <<"accept">> \o alternative, confidence)

RejectProposal(new_intent, confidence) == FollowUp("reject_proposal", new_intent, confidence)

\* send_request returns the response; on_response_received classifies it
ClientReceive ==
    /\ peer = "sdk"
    /\ cpc = "await"
    /\ s2c # <<>>
    /\ LET r == on_response_received(client, Head(s2c))
       IN  /\ client' = r.sm
           /\ cres' = Returns(cres.op, cres.from, r.ok, r.err, r.next, TRUE)
    /\ s2c' = Tail(s2c)
    /\ cpc' = "idle"
    /\ UNCHANGED <<fixed, clock, nextId, c2s, serverVars, lastsent, raw>>

\* send_request fails: the server has closed the connection
ClientReceiveFail ==
    /\ peer = "sdk"
    /\ cpc = "await"
    /\ s2c = <<>>
    /\ spc = "closed"
    /\ cres' = Returns(cres.op, cres.from, FALSE, TransportError("Read error"), None, TRUE)
    /\ cpc' = "idle"
    /\ UNCHANGED <<fixed, clock, nextId, c2s, s2c, serverVars, client, lastsent, raw>>

ClientReset ==
    /\ peer = "sdk"
    /\ cpc = "idle"
    /\ client' = client_reset(client)
    /\ cres' = Returns("reset", client.state, TRUE, NoError, None, FALSE)
    /\ lastsent' = None
    /\ UNCHANGED <<fixed, clock, nextId, c2s, s2c, serverVars, cpc, raw>>

(***************************************************************************)
(* A raw peer: any program that writes frames to the connection.  It may   *)
(* write a frame before it has read the reply to the one before.           *)
(***************************************************************************)
\* the peer can still write a frame the server will come to read: the
\* connection is open and no frame that ends it is on its way
RawCanSend ==
    /\ peer = "raw"
    /\ spc # "closed"
    /\ Len(c2s) < MaxInFlight
    /\ \A i \in 1..Len(c2s) : c2s[i].kind = "request"

RawSendRequest(fresh, reply, intent, confidence) ==
    /\ RawCanSend
    /\ nextId + 1 <= MaxId
    /\ LET conv == IF fresh \/ ~IsSome(raw.conversation_id)
                   THEN nextId + 1 ELSE Unwrap(raw.conversation_id)
           new == Request_new(intent, confidence, nextId, conv, clock)
           request == IF reply /\ IsSome(raw.last_response)
                      THEN [new EXCEPT !.in_response_to = raw.last_response]
                      ELSE new
       IN  /\ c2s' = Append(c2s, RequestFrame(request))
           /\ raw' = [raw EXCEPT !.conversation_id = Some(conv)]
           /\ nextId' = IF conv = nextId + 1 THEN nextId + 2 ELSE nextId + 1
    /\ UNCHANGED <<fixed, clock, s2c, serverVars, clientVars>>

RawSendOversize ==
    /\ RawCanSend
    /\ c2s' = Append(c2s, [kind |-> "oversize", len |-> max_message_size + 1])
    /\ UNCHANGED <<fixed, clock, nextId, s2c, serverVars, clientVars, raw>>

RawSendUnparsable ==
    /\ RawCanSend
    /\ c2s' = Append(c2s, [kind |-> "garbage", len |-> 1])
    /\ UNCHANGED <<fixed, clock, nextId, s2c, serverVars, clientVars, raw>>

RawReceive ==
    /\ peer = "raw"
    /\ s2c # <<>>
    /\ raw' = [raw EXCEPT !.last_response = Some(Head(s2c).message_id)]
    /\ s2c' = Tail(s2c)
    /\ UNCHANGED <<fixed, clock, nextId, c2s, serverVars, clientVars>>

\* what the raw peer asks for: an intent that is executed and one that is
\* answered CLARIFY
RawIntents == {<<"echo", "say">>, <<"other">>}

Next ==
    \/ Tick
    \/ ServerRejectOversize
    \/ ServerRejectUnparsable
    \/ \E policy \in BOOLEAN, handler_ok \in BOOLEAN : ServerProcess(policy, handler_ok)
    \/ ServerWrite
    \/ ServerWriteFail
    \/ \E intent \in Intents, confidence \in Confidences : SendIntent(intent, confidence)
    \/ \E answers \in Intents, confidence \in Confidences :
          RespondToClarify(answers, confidence)
    \/ \E confidence \in Confidences : AcceptProposal(<<"Use", <<"help">>>>, confidence)
    \/ \E new_intent \in Intents, confidence \in Confidences :
          RejectProposal(new_intent, confidence)
    \/ ClientReceive
    \/ ClientReceiveFail
    \/ ClientReset
    \/ \E fresh \in BOOLEAN, reply \in BOOLEAN, intent \in RawIntents :
          RawSendRequest(fresh, reply, intent, 90)
    \/ RawSendOversize
    \/ RawSendUnparsable
    \/ RawReceive

Spec == Init /\ [][Next]_vars

(***************************************************************************)
(* decide_action on its own: the arguments are drawn in the initial state  *)
(* and the one step applies the function.                                  *)
(***************************************************************************)
\* Thresholds::new(0.20, 0.10, 0.10) of main.rs, beside the defaults
OperatorThresholds == [tau_exec |-> 20, tau_clarify |-> 10, tau_accept |-> 10]

DecideArgs ==
    [phi_s : {0, 19, 20, 84, 85, 100},
     phi_c : {9, 10, 49, 50, 100},
     thresholds : {DefaultThresholds, OperatorThresholds},
     has_better_alternative : BOOLEAN,
     policy_violated : BOOLEAN,
     malformed : BOOLEAN]

InitDecide ==
    /\ ProtocolInit
    /\ conns = <<>>
    /\ peer = "sdk"
    /\ calc \in [fn : {"decide_action"}, args : DecideArgs, out : {None}]

ApplyDecide ==
    /\ calc.fn = "decide_action"
    /\ calc.out = None
    /\ calc' = [calc EXCEPT !.out =
                  Some(decide_action(calc.args.phi_s, calc.args.phi_c, calc.args.thresholds,
                                     calc.args.has_better_alternative,
                                     calc.args.policy_violated, calc.args.malformed))]
    /\ UNCHANGED <<peer, clock, nextId, c2s, s2c, serverVars, clientVars, raw, registry, conns>>

SpecDecide == InitDecide /\ [][ApplyDecide]_vars

(***************************************************************************)
(* The two state machines on their own: a machine and an event are drawn   *)
(* in the initial state and the one step applies transition.               *)
(***************************************************************************)
ServerMachines ==
    [state : ServerStates, conversation_id : {None, Some(1)}, last_message_id : {None, Some(2)}]

ClientMachines ==
    [state : ClientStates, conversation_id : {None, Some(1)}, last_response : {None}]

\* responses of every action, with and without each optional part
SampleAlternative ==
    [interpretation |-> <<"Use", <<"help">>>>, confidence |-> 25, estimated_cost |-> Some(10),
     capability_id |-> <<"help">>]

SampleMetadata ==
    {None, Some(NoMetadata),
     Some([NoMetadata EXCEPT !.questions = Some(DefaultQuestions)]),
     Some([NoMetadata EXCEPT !.reason_code = Some("capability_missing"),
                             !.reason = Some(<<"Request refused", "capability_missing">>)])}

SampleResponses ==
    {[Response_to_request(Request_new(<<"say">>, 90, 1, 1, 0),
                          [id |-> "sinp-server", capabilities |-> <<>>],
                          [text |-> <<"say">>, confidence |-> 50], action, 50, 2)
        EXCEPT !.action_metadata = metadata, !.alternatives = alternatives] :
     action \in {"EXECUTE", "CLARIFY", "PROPOSE", "REFUSE"},
     metadata \in SampleMetadata,
     alternatives \in {None, Some(<<SampleAlternative>>)}}

SampleResponse ==
    CHOOSE r \in SampleResponses :
        r.action = "CLARIFY" /\ r.alternatives = None /\ r.action_metadata = Some(NoMetadata)

\* requests of conversation 1, first ones and follow-ups to response 2; a
\* confidence of 1.5 is a value the wire format carries like any other f64
SampleRequests ==
    {[Request_new(intent, confidence, 3, 1, 0) EXCEPT !.in_response_to = in_response_to] :
     intent \in Intents, confidence \in {5, 90, 150}, in_response_to \in {None, Some(2)}}

\* thresholds an operator may configure: the defaults, those of main.rs, and
\* thresholds of zero (Thresholds::new takes any three floats)
ZeroThresholds == [tau_exec |-> 0, tau_clarify |-> 0, tau_accept |-> 0]
ThresholdConfigs == {DefaultThresholds, OperatorThresholds, ZeroThresholds}

ClientOps == FollowUpOps \cup {"send_intent", "abandon"}

InitMachines ==
    /\ ProtocolInit
    /\ conns = <<>>
    /\ peer = "sdk"
    /\ \/ calc \in [fn : {"server_transition"}, sm : ServerMachines, event : ServerEvents,
                    out : {None}]
       \/ calc \in [fn : {"client_transition"}, sm : ClientMachines, event : ClientEvents,
                    out : {None}]
       \/ calc \in [fn : {"process_request"}, sm : ServerMachines, request : SampleRequests,
                    thresholds : ThresholdConfigs, now : {0, TickMs}, policy : BOOLEAN,
                    handler_ok : BOOLEAN, out : {None}]
       \/ calc \in [fn : {"client_op"},
                    sm : [state : ClientStates, conversation_id : {None, Some(1)},
                          last_response : {None, Some(SampleResponse)}],
                    op : ClientOps, out : {None}]
       \/ calc \in [fn : {"on_response_received"}, sm : ClientMachines,
                    response : SampleResponses, out : {None}]

ApplyServerTransition ==
    /\ calc.fn = "server_transition"
    /\ calc.out = None
    /\ calc' = [calc EXCEPT !.out = Some(server_transition(calc.sm, calc.event))]
    /\ UNCHANGED <<peer, clock, nextId, c2s, s2c, serverVars, clientVars, raw, registry, conns>>

ApplyClientTransition ==
    /\ calc.fn = "client_transition"
    /\ calc.out = None
    /\ calc' = [calc EXCEPT !.out = Some(client_transition(calc.sm, calc.event))]
    /\ UNCHANGED <<peer, clock, nextId, c2s, s2c, serverVars, clientVars, raw, registry, conns>>

\* process_request on a machine in any state
ApplyProcessRequest ==
    /\ calc.fn = "process_request"
    /\ calc.out = None
    /\ calc' = [calc EXCEPT !.out =
                  Some(process_request(calc.sm, calc.request, registry,
                                       [ServerConfig_default EXCEPT
                                          !.thresholds = calc.thresholds],
                                       calc.now, calc.policy, calc.handler_ok, 9))]
    /\ UNCHANGED <<peer, clock, nextId, c2s, s2c, serverVars, clientVars, raw, registry, conns>>

\* what a SinpClient operation does to the machine before anything is sent
client_op(sm, op) ==
    CASE op = "send_intent" -> send_intent_prepare(sm, <<"say">>, 90, 3, 4, 0)
      [] op = "abandon" -> abandon(sm)
      [] OTHER -> follow_up_prepare(sm, op, <<"say">>, 90, 3, 0)

ApplyClientOp ==
    /\ calc.fn = "client_op"
    /\ calc.out = None
    /\ calc' = [calc EXCEPT !.out = Some(client_op(calc.sm, calc.op))]
    /\ UNCHANGED <<peer, clock, nextId, c2s, s2c, serverVars, clientVars, raw, registry, conns>>

ApplyOnResponseReceived ==
    /\ calc.fn = "on_response_received"
    /\ calc.out = None
    /\ calc' = [calc EXCEPT !.out = Some(on_response_received(calc.sm, calc.response))]
    /\ UNCHANGED <<peer, clock, nextId, c2s, s2c, serverVars, clientVars, raw, registry, conns>>

NextMachines ==
    \/ ApplyServerTransition
    \/ ApplyClientTransition
    \/ ApplyProcessRequest
    \/ ApplyClientOp
    \/ ApplyOnResponseReceived

SpecMachines == InitMachines /\ [][NextMachines]_vars

(***************************************************************************)
(* Server::run: one task per accepted connection, each running             *)
(* handle_stream with a machine of its own and a clone of the Arc that     *)
(* holds the registry.  A task is [pc, sm, inbox, out, handled, last].     *)
(***************************************************************************)
Conns == 1..MaxConns

\* the conversation the peer of connection c speaks in
conversation_of(c) == 100 + c

\* the ids of the n-th exchange on connection c: the request's and the
\* response's (ids are unique; nextId only counts the ids given out)
conn_request_id(c, n) == 10 * c + 2 * n + 1
conn_response_id(c, n) == 10 * c + 2 * n + 2

\* a machine that every task would share
conn_machine_shared(c) == 1

\* line 120: the machine a task works on is the local of its handle_stream
conn_machine(c) == c

InitConns ==
    /\ ProtocolInit
    /\ peer = "raw"
    /\ calc = [fn |-> "none"]
    /\ conns = [c \in Conns |->
                  [pc |-> "none", sm |-> ServerStateMachine_new, inbox |-> <<>>,
                   out |-> None, handled |-> 0, last |-> None]]

\* lines 72-90: accept, clone the Arc, spawn the task
Spawn(c) ==
    /\ conns[c].pc = "none"
    /\ conns' = [conns EXCEPT ![c].pc = "read", ![c].sm = ServerStateMachine_new]
    /\ UNCHANGED <<peer, calc, registry, clock, nextId, c2s, s2c, serverVars, clientVars, raw>>

\* the peer of connection c writes a request
ConnSend(c, intent, reply) ==
    /\ conns[c].pc \in {"read", "write"}
    /\ conns[c].inbox = <<>>
    /\ nextId <= MaxId
    /\ LET new == Request_new(intent, 90, conn_request_id(c, conns[c].handled),
                              conversation_of(c), clock)
           request == IF reply THEN [new EXCEPT !.in_response_to = conns[c].last] ELSE new
       IN  conns' = [conns EXCEPT ![c].inbox = <<request>>]
    /\ nextId' = nextId + 1
    /\ UNCHANGED <<peer, calc, registry, clock, c2s, s2c, serverVars, clientVars, raw>>

\* lines 123-165 in the task of connection c
ConnProcess(c, policy, handler_ok) ==
    /\ conns[c].pc = "read"
    /\ conns[c].inbox # <<>>
    /\ nextId <= MaxId
    /\ LET request == Head(conns[c].inbox)
           response_id == conn_response_id(c, conns[c].handled)
           ret == process_request(conns[conn_machine(c)].sm, request, registry,
                                  ServerConfig_default, clock, policy, handler_ok,
                                  response_id)
       IN  conns' = [conns EXCEPT ![conn_machine(c)].sm = ret.sm,
                                  ![c].pc = "write",
                                  ![c].inbox = <<>>,
                                  ![c].out = Some(reply_of(request, ret, response_id)),
                                  ![c].handled = @ + 1]
    /\ nextId' = nextId + 1
    /\ UNCHANGED <<peer, calc, registry, clock, c2s, s2c, serverVars, clientVars, raw>>

\* lines 161-173 in the task of connection c
ConnWrite(c) ==
    /\ conns[c].pc = "write"
    /\ conns' = [conns EXCEPT
                   ![conn_machine(c)].sm = after_send(@, Unwrap(conns[c].out).error),
                   ![c].pc = "read",
                   ![c].out = None,
                   ![c].last = Some(Unwrap(conns[c].out).response.message_id)]
    /\ UNCHANGED <<peer, calc, registry, clock, nextId, c2s, s2c, serverVars, clientVars, raw>>

NextConns ==
    \/ \E c \in Conns : Spawn(c)
    \/ \E c \in Conns, intent \in Intents, reply \in BOOLEAN : ConnSend(c, intent, reply)
    \/ \E c \in Conns, policy \in BOOLEAN, handler_ok \in BOOLEAN :
          ConnProcess(c, policy, handler_ok)
    \/ \E c \in Conns : ConnWrite(c)

SpecConns == InitConns /\ [][NextConns]_vars

(***************************************************************************)
(* The pure functions on their own: the arguments are drawn in the initial *)
(* state and the one step applies the function.                            *)
(***************************************************************************)
\* distances from now, on both sides of a window of 1000 ms and of the default
ReplayOffsets == {0, 999, 1000, 1001, 4999, 5000, 5001, 9000}

ReplayArgs ==
    [now : {10000}, message_timestamp : {10000 - d : d \in ReplayOffsets}
                                        \cup {10000 + d : d \in ReplayOffsets},
     window_ms : {None, Some(1000), Some(replay_window_ms)}]

\* frames around the size limit: a request padded with JSON whitespace, and
\* bytes that are no request
FrameSamples ==
    [kind : {"request", "garbage"},
     len : {1, max_message_size - 1, max_message_size, max_message_size + 1,
            2 * max_message_size}]

\* f64 inputs: not a number, below, inside and above [0,1]
F64Samples == {NaN, -50, 0, 50, 100, 150}

ConfidenceArgs ==
    [rho : F64Samples, reliability : F64Samples, availability : F64Samples,
     policy_passed : BOOLEAN]

\* the register calls of an embedding program: two ids, two versions of the
\* capability and of the handler, reliabilities inside and outside [0,1]
RegisterIds == {<<"echo">>, <<"help">>}
RegisterCalls ==
    [capability : {Capability(id, d, <<>>, 10) : id \in RegisterIds, d \in {<<"say">>, <<"list">>}},
     handler : {"handler_one", "handler_two"},
     reliability : {NaN, 50, 150}]

\* intents and contents that differ in case and in whitespace only, and
\* some that differ in more
IntentStrings ==
    {<<>>, <<"a">>, <<"A">>, <<" ", "a", "\t">>, <<"a", " ", "b">>,
     <<"A", " ", "\n", "B", " ">>, <<"a", "b">>}
ContentStrings ==
    {<<>>, <<" ">>, <<"U", " ", "a">>, <<"u", "\n", "\n", "A">>, <<"u", "a">>}
HashArgsA ==
    [intent : IntentStrings,
     context : {Context("transcript", c, <<>>) : c \in ContentStrings}]
HashArgsB ==
    [intent : IntentStrings,
     context : {Context(t, c, h) : t \in {"transcript", "summary"}, c \in ContentStrings,
                                  h \in {<<>>, Sha256Hex(<<"a">>)}}]

\* the history of a new conversation and of one with an exchange behind it
Histories == {<<>>, <<UserPrefix \o <<"a">>, <<"S", ":", " ", "b">>>>}

\* requests to sign, without a signature or with a stale one, and two key
\* pairs
KeyPairs == {1, 2}
SigningKeys == [pair : KeyPairs]
VerifyingKeys == [pair : KeyPairs]
with_signature(request, signature) ==
    [k \in DOMAIN request \cup {"signature"} |->
        IF k = "signature" THEN signature ELSE request[k]]
SignRequests ==
    {with_signature(r, sg) : r \in SampleRequests, sg \in {None, Some(<<"stale">>)}}

\* capabilities whose keywords overlap: two that tie on the intent "x y", one
\* with a keyword that occurs three times, one that scores below min_score
CapabilityPool ==
    {Capability(<<"c1">>, <<"x">>, <<>>, 10),
     Capability(<<"c2">>, <<"x", "y">>, <<>>, 10),
     Capability(<<"c3">>, <<"y">>, <<>>, 10),
     Capability(<<"c4">>, <<"x", "x">>, <<<<"x">>>>, 10),
     Capability(<<"c5">>, <<"z", "z", "z", "z", "x">>, <<>>, 10)}

\* the lists of distinct capabilities, in every order
CapabilityLists ==
    {caps \in UNION {[1..n -> CapabilityPool] : n \in 0..Cardinality(CapabilityPool)} :
        \A i, j \in 1..Len(caps) : caps[i] = caps[j] => i = j}

InterpretIntents == {<<"x">>, <<"y">>, <<"x", "y">>, <<"w">>}

\* two or three of the capabilities, in each order of registration
TiedLists == {caps \in CapabilityLists : Len(caps) \in 2..3 /\ caps[1].id # <<"c5">>
                                          /\ \A i \in 1..Len(caps) : caps[i].id # <<"c4">>}

\* the registry after registering caps in order, as main.rs does at start-up
RECURSIVE register_all(_)
register_all(caps) ==
    IF caps = <<>> THEN <<>>
    ELSE register(register_all(SubSeq(caps, 1, Len(caps) - 1)), caps[Len(caps)],
                  "handler_one", 100)

InitFunctions ==
    /\ ProtocolInit
    /\ conns = <<>>
    /\ peer = "sdk"
    /\ \/ calc \in [fn : {"check_replay"}, args : ReplayArgs, out : {None}]
       \/ calc \in [fn : {"read_frame"}, frame : FrameSamples, out : {None}]
       \/ calc \in [fn : {"compute_server_confidence"}, args : ConfidenceArgs, out : {None}]
       \/ calc = [fn |-> "register", calls |-> <<>>, out |-> None]
       \/ calc \in [fn : {"interpret"}, intent : InterpretIntents,
                     capabilities : CapabilityLists, out : {None}]
       \/ calc \in {c \in [fn : {"registry_interpret"}, registered : TiedLists,
                           order : IterationOrders(2) \cup IterationOrders(3),
                           intent : InterpretIntents, out : {None}] :
                        DOMAIN c.order = DOMAIN c.registered}
       \/ calc \in [fn : {"score"}, intent : InterpretIntents, cap : CapabilityPool,
                     out : {None}]
       \/ calc \in [fn : {"sign_message"}, request : SignRequests, signing_key : SigningKeys,
                     verifying_key : VerifyingKeys, new_intent : Intents, out : {None}]
       \/ calc \in [fn : {"build_context"}, context_history : Histories,
                     intent : IntentStrings, out : {None}]
       \/ calc \in [fn : {"semantic_hash"}, a : HashArgsA, b : HashArgsB, out : {None}]

ApplyCheckReplay ==
    /\ calc.fn = "check_replay"
    /\ calc.out = None
    /\ calc' = [calc EXCEPT !.out =
                  Some(check_replay(calc.args.now, calc.args.message_timestamp,
                                    calc.args.window_ms))]
    /\ UNCHANGED <<peer, clock, nextId, c2s, s2c, serverVars, clientVars, raw, registry, conns>>

ApplyReadFrame ==
    /\ calc.fn = "read_frame"
    /\ calc.out = None
    /\ calc' = [calc EXCEPT !.out = Some(read_frame(calc.frame, ServerConfig_default))]
    /\ UNCHANGED <<peer, clock, nextId, c2s, s2c, serverVars, clientVars, raw, registry, conns>>

ApplyComputeServerConfidence ==
    /\ calc.fn = "compute_server_confidence"
    /\ calc.out = None
    /\ calc' = [calc EXCEPT !.out =
                  Some(compute_server_confidence(calc.args.rho, calc.args.reliability,
                                                 calc.args.availability,
                                                 calc.args.policy_passed))]
    /\ UNCHANGED <<peer, clock, nextId, c2s, s2c, serverVars, clientVars, raw, registry, conns>>

\* one more register call on the registry built by the calls so far
ApplyRegister(call) ==
    /\ calc.fn = "register"
    /\ Len(calc.calls) < MaxRegs
    /\ calc' = [calc EXCEPT
                  !.calls = Append(@, call),
                  !.out = Some(register(IF calc.out = None THEN <<>> ELSE Unwrap(calc.out),
                                        call.capability, call.handler, call.reliability))]
    /\ UNCHANGED <<peer, clock, nextId, c2s, s2c, serverVars, clientVars, raw, registry, conns>>

ApplySemanticHash ==
    /\ calc.fn = "semantic_hash"
    /\ calc.out = None
    /\ calc' = [calc EXCEPT !.out =
                  Some(<<semantic_hash(calc.a.intent, calc.a.context),
                         semantic_hash(calc.b.intent, calc.b.context)>>)]
    /\ UNCHANGED <<peer, clock, nextId, c2s, s2c, serverVars, clientVars, raw, registry, conns>>

ApplyBuildContext ==
    /\ calc.fn = "build_context"
    /\ calc.out = None
    /\ calc' = [calc EXCEPT !.out = Some(send_intent_context(calc.context_history, calc.intent))]
    /\ UNCHANGED <<peer, clock, nextId, c2s, s2c, serverVars, clientVars, raw, registry, conns>>

\* sign, attach the signature, verify; then change the intent and verify
ApplySignMessage ==
    /\ calc.fn = "sign_message"
    /\ calc.out = None
    /\ LET signature == sign_message(calc.request, calc.signing_key)
           signed == with_signature(calc.request, Some(signature))
           tampered == [signed EXCEPT !.intent = calc.new_intent]
       IN  calc' = [calc EXCEPT !.out =
                      Some([signature |-> signature,
                            verified |-> verify_signature(signed, calc.verifying_key),
                            tampered |-> verify_signature(tampered, calc.verifying_key)])]
    /\ UNCHANGED <<peer, clock, nextId, c2s, s2c, serverVars, clientVars, raw, registry, conns>>

ApplyInterpret ==
    /\ calc.fn = "interpret"
    /\ calc.out = None
    /\ calc' = [calc EXCEPT !.out = Some(interpret(calc.intent, calc.capabilities))]
    /\ UNCHANGED <<peer, clock, nextId, c2s, s2c, serverVars, clientVars, raw, registry, conns>>

\* CapabilityRegistry::interpret on a registry whose map iterates in calc.order
ApplyRegistryInterpret ==
    /\ calc.fn = "registry_interpret"
    /\ calc.out = None
    /\ calc' = [calc EXCEPT !.out =
                  Some(registry_interpret(hash_map_values(register_all(calc.registered), calc.order),
                                          calc.intent))]
    /\ UNCHANGED <<peer, clock, nextId, c2s, s2c, serverVars, clientVars, raw, registry, conns>>

ApplyScore ==
    /\ calc.fn = "score"
    /\ calc.out = None
    /\ calc' = [calc EXCEPT !.out = Some(score(tokenize(calc.intent), calc.cap))]
    /\ UNCHANGED <<peer, clock, nextId, c2s, s2c, serverVars, clientVars, raw, registry, conns>>

NextFunctions ==
    \/ ApplyInterpret
    \/ ApplyScore
    \/ ApplyRegistryInterpret
    \/ ApplySignMessage
    \/ ApplyBuildContext
    \/ ApplySemanticHash
    \/ \E call \in RegisterCalls : ApplyRegister(call)
    \/ ApplyCheckReplay
    \/ ApplyReadFrame
    \/ ApplyComputeServerConfidence

SpecFunctions == InitFunctions /\ [][NextFunctions]_vars

(***************************************************************************)
(* Properties.                                                             *)
(***************************************************************************)
\* the response handle_stream is about to write, and its action metadata
Outgoing == Unwrap(s_out).response
OutgoingMetadata == Unwrap(Outgoing.action_metadata)

\* C1: every response the server writes for a parsed request r, from
\* process_request or the synthetic error REFUSE, has in_response_to =
\* r.message_id and conversation_id = r.conversation_id.
C1_ResponseCorrelation ==
    spc = "write" =>
        /\ Outgoing.in_response_to = lastproc.request.message_id
        /\ Outgoing.conversation_id = lastproc.request.conversation_id

\* an error REFUSE is being written for a request that followed a normal response
C1_Witness ==
    /\ spc = "write"
    /\ Unwrap(s_out).error
    /\ lastproc.prev.called
    /\ lastproc.prev.ok

C3_DecideRule ==
    (calc.fn = "decide_action" /\ IsSome(calc.out)) =>
        LET a == calc.args
        IN  Unwrap(calc.out) =
               IF a.policy_violated \/ a.malformed THEN "REFUSE"
               ELSE IF a.phi_s >= a.thresholds.tau_exec /\ a.phi_c >= a.thresholds.tau_accept
                    THEN "EXECUTE"
               ELSE IF a.has_better_alternative THEN "PROPOSE"
               ELSE "CLARIFY"

\* both confidences exactly at their thresholds, and the answer is EXECUTE
C3_Witness ==
    /\ calc.fn = "decide_action"
    /\ calc.out = Some("EXECUTE")
    /\ calc.args.phi_s = calc.args.thresholds.tau_exec
    /\ calc.args.phi_c = calc.args.thresholds.tau_accept
    /\ calc.args.has_better_alternative

\* C4: after a CLARIFY or PROPOSE (machine in Negotiating), the next request
\* with the same conversation_id and in_response_to = that response's
\* message_id is accepted: it passes validation and is interpreted and decided.
C4_FollowUpAccepted ==
    (/\ lastproc.called
     /\ lastproc.before.state = "Negotiating"
     /\ Some(lastproc.request.conversation_id) = lastproc.before.conversation_id
     /\ lastproc.request.in_response_to = lastproc.before.last_message_id
     /\ Abs(lastproc.now - lastproc.request.timestamp) <= replay_window_ms) =>
        /\ lastproc.ret.err.kind # "Protocol"
        /\ \E i \in 1..Len(lastproc.ret.path) : lastproc.ret.path[i] = "Deciding"

\* C5: in Refining, respond_to_clarify, accept_proposal and reject_proposal
\* each move the client to Pending and transmit one follow-up request; none
\* fails with a protocol error before the request is sent.
C5_FollowUpSent ==
    (cres.op \in FollowUpOps /\ cres.from = "Refining") =>
        /\ cres.sent
        /\ cres.err.kind # "Protocol"

\* C6: the first request of a conversation has no in_response_to; every
\* later request the client emits before reset has in_response_to = the
\* message_id of the last response received and the conversation_id recorded
\* in the client machine.
C6_RequestLinkage ==
    IsSome(lastsent) =>
        LET request == Unwrap(lastsent).request
            before == Unwrap(lastsent).before
        IN  IF before.state = "Init"
            THEN request.in_response_to = None
            ELSE /\ IsSome(before.last_response)
                 /\ request.in_response_to = Some(Unwrap(before.last_response).message_id)
                 /\ Some(request.conversation_id) = before.conversation_id

\* C7: on one connection the server reads frame n+1 only after it has
\* written the response to frame n: every request read gets exactly one
\* response (unless the write itself fails, which ends the connection), and
\* responses are written in the order the requests were sent (message ids
\* are allocated in send order).
C7_SequentialInOrder ==
    /\ Len(resplog) <= Len(reqlog)
    /\ \A i \in 1..Len(resplog) : resplog[i] = reqlog[i]
    /\ \A i, j \in 1..Len(resplog) : i < j => resplog[i] < resplog[j]
    /\ spc = "read" => Len(resplog) = Len(reqlog)
    /\ spc = "write" => Len(reqlog) = Len(resplog) + 1
    /\ spc = "closed" => Len(reqlog) <= Len(resplog) + 1

\* two requests written back to back by a peer that read nothing in between,
\* both answered
C7_Witness ==
    /\ peer = "raw"
    /\ Len(resplog) = 2
    /\ raw.last_response = None

Stale(call) == Abs(call.now - call.request.timestamp) > replay_window_ms

Reaches(call, state) == \E i \in 1..Len(call.ret.path) : call.ret.path[i] = state

\* C8: a request whose timestamp is outside the replay window drives the
\* machine Received -> Validating -> Failed; the reply is a REFUSE with
\* reason_code malformed_context whose reason mentions replay; once it is
\* written the machine is reset to Received, and the next request on the
\* connection is processed normally.
C8_StaleRequestRefused ==
    /\ (lastproc.called /\ lastproc.before.state = "Received" /\ Stale(lastproc)) =>
          /\ lastproc.ret.path = <<"Received", "Validating", "Failed">>
          /\ ~lastproc.ret.ok
          /\ spc = "write" =>
                /\ Outgoing.action = "REFUSE"
                /\ OutgoingMetadata.reason_code = Some("malformed_context")
                /\ Unwrap(OutgoingMetadata.reason)[1] = "replay attack detected"
          /\ spc = "read" => server = ServerStateMachine_new
    /\ (lastproc.called /\ lastproc.prev.called /\ lastproc.prev.err = "ReplayDetected"
        /\ ~Stale(lastproc)) =>
          /\ lastproc.before = ServerStateMachine_new
          /\ Reaches(lastproc, "Deciding")

\* a stale request was refused and the request after it got a decided response
C8_Witness ==
    /\ lastproc.called
    /\ lastproc.prev.called
    /\ lastproc.prev.err = "ReplayDetected"
    /\ lastproc.ret.ok

HandlerFailed(outcome) == outcome.called /\ IsSome(outcome.invoked) /\ ~outcome.ok

\* C9: when the selected capability's handler returns an error during
\* EXECUTE, the reply is the synthetic REFUSE with reason_code
\* malformed_context (never an EXECUTE), the reply is written and the loop
\* goes on to the next read (only a failed write leaves it unanswered),
\* the machine is reset to Received with no conversation_id and no
\* last_message_id, and the next request is served as a new conversation.
C9_HandlerErrorRefused ==
    /\ HandlerFailed(Outcome(lastproc)) =>
          /\ spc = "write" =>
                /\ Unwrap(s_out).error
                /\ Outgoing.action = "REFUSE"
                /\ OutgoingMetadata.reason_code = Some("malformed_context")
          /\ Len(resplog) = Len(reqlog) =>
                /\ server = ServerStateMachine_new
                /\ s2c # <<>> => s2c[Len(s2c)].action = "REFUSE"
    /\ (lastproc.called /\ HandlerFailed(lastproc.prev)) =>
          /\ lastproc.before = ServerStateMachine_new
          /\ ~Stale(lastproc) =>
                /\ Reaches(lastproc, "Deciding")
                /\ lastproc.ret.sm.conversation_id = Some(lastproc.request.conversation_id)

\* a handler failed and the request after it, of another conversation, was answered
C9_Witness ==
    /\ lastproc.called
    /\ HandlerFailed(lastproc.prev)
    /\ lastproc.ret.ok
    /\ lastproc.request.conversation_id # lastproc.prev.conversation_id

\* C10: every validation failure on the server, an oversize frame and an
\* unparsable body included, is answered with a synthetic REFUSE and the
\* server keeps serving the connection: the loop ends only when a write fails,
\* that is with one request read and not answered.
C10_ValidationFailureAnswered ==
    spc = "closed" => Len(reqlog) = Len(resplog) + 1

Applied(fn) == calc.fn = fn /\ IsSome(calc.out)

\* what transition must answer for a pair the table accepts with this target,
\* and for a pair it does not accept ("none")
AnswersAs(target) ==
    LET out == Unwrap(calc.out)
    IN  IF target = "none"
        THEN ~out.ok /\ out.err.kind = "Protocol" /\ out.sm = calc.sm
        ELSE out.ok /\ out.sm = [calc.sm EXCEPT !.state = target]

\* the nine pairs of the server table
ServerTable(state, event) ==
    CASE state = "Received" /\ event = "RequestReceived" -> "Validating"
      [] state = "Validating" /\ event = "ValidationPassed" -> "Interpreting"
      [] state = "Validating" /\ event = "ValidationFailed" -> "Failed"
      [] state = "Interpreting" /\ event = "InterpretationComplete" -> "Deciding"
      [] state = "Deciding" /\ event = "DecisionExecute" -> "Done"
      [] state = "Deciding" /\ event = "DecisionRefuse" -> "Done"
      [] state = "Deciding" /\ event = "DecisionClarify" -> "Negotiating"
      [] state = "Deciding" /\ event = "DecisionPropose" -> "Negotiating"
      [] state = "Negotiating" /\ event = "ClientResponded" -> "Received"
      [] OTHER -> "none"

\* C11: the server machine accepts the nine pairs of the table and, in
\* every state that is not Done or Failed, the event Error (to Failed); every
\* other pair returns a protocol error and leaves the machine unchanged.
C11_ServerTableWithError ==
    Applied("server_transition") =>
        AnswersAs(IF calc.event = "Error" /\ calc.sm.state \notin {"Done", "Failed"}
                  THEN "Failed"
                  ELSE ServerTable(calc.sm.state, calc.event))

\* C11 as stated: the nine pairs and no other
C11_ServerTableExactly ==
    Applied("server_transition") => AnswersAs(ServerTable(calc.sm.state, calc.event))

\* ActionCompleted in Done has an arm in transition and is still refused
C11_Witness ==
    /\ Applied("server_transition")
    /\ calc.sm.state = "Done"
    /\ calc.event = "ActionCompleted"
    /\ ~Unwrap(calc.out).ok

\* the nine pairs of the client table
ClientTable(state, event) ==
    CASE state = "Init" /\ event = "RequestSent" -> "Pending"
      [] state = "Pending" /\ event = "ResponseExecute" -> "Satisfied"
      [] state = "Pending" /\ event = "ResponseClarify" -> "Refining"
      [] state = "Pending" /\ event = "ResponsePropose" -> "Refining"
      [] state = "Pending" /\ event = "ResponseRefuse" -> "Failed"
      [] state = "Refining" /\ event = "ClarificationProvided" -> "Pending"
      [] state = "Refining" /\ event = "ProposalAccepted" -> "Pending"
      [] state = "Refining" /\ event = "ProposalRejected" -> "Pending"
      [] state = "Refining" /\ event = "Abandoned" -> "Abandoned"
      [] OTHER -> "none"

\* C12: the client machine accepts the nine pairs of the table, RequestSent
\* in Refining (to Pending) and, in Init, Pending and Refining, the event
\* Error (to Failed); every other pair returns a protocol error and leaves
\* the machine unchanged.
C12_ClientTableWithExtras ==
    Applied("client_transition") =>
        AnswersAs(IF calc.event = "Error" /\ calc.sm.state \in {"Init", "Pending", "Refining"}
                  THEN "Failed"
                  ELSE IF calc.event = "RequestSent" /\ calc.sm.state = "Refining"
                       THEN "Pending"
                       ELSE ClientTable(calc.sm.state, calc.event))

\* C12 as stated: the nine pairs and no other
C12_ClientTableExactly ==
    Applied("client_transition") => AnswersAs(ClientTable(calc.sm.state, calc.event))

\* a response event outside Pending is refused
C12_Witness ==
    /\ Applied("client_transition")
    /\ calc.sm.state = "Refining"
    /\ calc.event = "ResponseExecute"
    /\ ~Unwrap(calc.out).ok
    /\ Unwrap(calc.out).sm = calc.sm

\* C13: terminal states are absorbing.  For a server machine in Done or
\* Failed, and a client machine in Satisfied, Abandoned or Failed, every
\* event is refused by transition, and process_request and every SinpClient
\* operation fail, each leaving the state as it was.
C13_TerminalAbsorbing ==
    /\ (Applied("server_transition") \/ Applied("process_request")) =>
          (server_is_terminal(calc.sm.state) =>
              /\ ~Unwrap(calc.out).ok
              /\ Unwrap(calc.out).sm.state = calc.sm.state)
    /\ (Applied("client_transition") \/ Applied("client_op")
        \/ Applied("on_response_received")) =>
          (client_is_terminal(calc.sm.state) =>
              /\ ~Unwrap(calc.out).ok
              /\ Unwrap(calc.out).sm.state = calc.sm.state)

\* the event Error, which moves every other state to Failed, refused in Done
C13_Witness ==
    /\ Applied("server_transition")
    /\ calc.sm.state = "Done"
    /\ calc.event = "Error"
    /\ Unwrap(calc.out).sm.state = "Done"

KindOf(action) ==
    CASE action = "EXECUTE" -> "Done"
      [] action = "CLARIFY" -> "Clarify"
      [] action = "PROPOSE" -> "Propose"
      [] action = "REFUSE"  -> "Refused"

\* C14: for a client in Pending, on_response_received returns Ok with Done
\* for EXECUTE (Satisfied), Clarify with the response's questions for CLARIFY
\* (Refining), Propose with its alternatives for PROPOSE (Refining) and
\* Refused with its reason for REFUSE (Failed); the variant depends only on
\* response.action, whatever else the response carries.
C14_Classification ==
    (Applied("on_response_received") /\ calc.sm.state = "Pending") =>
        LET out == Unwrap(calc.out)
            r == calc.response
            next == Unwrap(out.next)
        IN  /\ out.ok
            /\ IsSome(out.next)
            /\ next.kind = KindOf(r.action)
            /\ out.sm.state = CASE r.action = "EXECUTE" -> "Satisfied"
                                [] r.action = "REFUSE" -> "Failed"
                                [] OTHER -> "Refining"
            /\ out.sm.last_response = Some(r)
            /\ (r.action = "CLARIFY" /\ IsSome(metadata_field(r, "questions"))) =>
                  next.payload = Unwrap(Unwrap(r.action_metadata).questions)
            /\ (r.action = "PROPOSE" /\ IsSome(r.alternatives)) =>
                  next.payload = Unwrap(r.alternatives)
            /\ (r.action = "REFUSE" /\ IsSome(metadata_field(r, "reason"))) =>
                  next.payload = Unwrap(Unwrap(r.action_metadata).reason)

\* a REFUSE that also carries questions and alternatives is still Refused, as Ok
C14_Witness ==
    /\ Applied("on_response_received")
    /\ calc.sm.state = "Pending"
    /\ calc.response.action = "REFUSE"
    /\ IsSome(calc.response.alternatives)
    /\ IsSome(metadata_field(calc.response, "questions"))
    /\ Unwrap(calc.out).ok
    /\ Unwrap(Unwrap(calc.out).next).kind = "Refused"

Present(metadata, fields) ==
    \A f \in {"result", "questions", "reason_code", "reason"} :
        IsSome(metadata[f]) <=> f \in fields

\* C15: every response returned by process_request carries exactly the
\* payload of its action: EXECUTE the result only, CLARIFY a non-empty
\* questions list only, REFUSE reason_code and reason only, PROPOSE none of
\* the four fields.
C15_PayloadOfAction ==
    (lastproc.called /\ lastproc.ret.ok) =>
        LET response == Unwrap(lastproc.ret.response)
            metadata == Unwrap(response.action_metadata)
        IN  /\ IsSome(response.action_metadata)
            /\ response.action = "EXECUTE" => Present(metadata, {"result"})
            /\ response.action = "CLARIFY" =>
                  Present(metadata, {"questions"}) /\ Unwrap(metadata.questions) # <<>>
            /\ response.action = "REFUSE" => Present(metadata, {"reason_code", "reason"})
            /\ response.action = "PROPOSE" => Present(metadata, {})

\* a REFUSE decided by process_request itself
C15_Witness ==
    /\ lastproc.called
    /\ lastproc.ret.ok
    /\ Unwrap(lastproc.ret.response).action = "REFUSE"
    /\ Unwrap(Unwrap(lastproc.ret.response).action_metadata).reason_code
          = Some("policy_violation")

\* C16: in every response the server emits, normal or synthetic, PROPOSE
\* implies alternatives present and non-empty, and any other action implies
\* alternatives absent.
C16_AlternativesIffPropose ==
    spc = "write" =>
        IF Outgoing.action = "PROPOSE"
        THEN IsSome(Outgoing.alternatives) /\ Unwrap(Outgoing.alternatives) # <<>>
        ELSE Outgoing.alternatives = None

C16_Witness ==
    /\ spc = "write"
    /\ Outgoing.action = "PROPOSE"
    /\ Len(Unwrap(Outgoing.alternatives)) = 1

\* C17: a request whose confidence is outside [0,1] is not processed to a
\* normal response.
C17_ConfidenceOutOfRangeRejected ==
    (Applied("process_request") /\ calc.request.confidence \notin 0..100) =>
        ~Unwrap(calc.out).ok

\* C18: after the server answers with EXECUTE or REFUSE (machine in Done)
\* the machine is reset before the next frame is read, so a following
\* request on the connection is handled from a new machine: whatever its
\* conversation_id, and without in_response_to, it is validated and decided
\* as the first request of its conversation.
C18_ResetAfterDone ==
    /\ (spc = "read" /\ lastproc.called /\ Outcome(lastproc).action \in {"EXECUTE", "REFUSE"})
          => server = ServerStateMachine_new
    /\ (lastproc.called /\ lastproc.prev.called
        /\ lastproc.prev.action \in {"EXECUTE", "REFUSE"}) =>
          /\ lastproc.before = ServerStateMachine_new
          /\ ~Stale(lastproc) =>
                /\ Reaches(lastproc, "Deciding")
                /\ lastproc.ret.sm.conversation_id = Some(lastproc.request.conversation_id)

\* an EXECUTE, then a first request of another conversation, answered
C18_Witness ==
    /\ lastproc.called
    /\ lastproc.prev.called
    /\ lastproc.prev.action = "EXECUTE"
    /\ lastproc.request.conversation_id # lastproc.prev.conversation_id
    /\ lastproc.request.in_response_to = None
    /\ lastproc.ret.ok

\* C19: a send_intent made by a client in Init, at first or after reset in
\* any state, starts a conversation that the server validates, interprets
\* and decides instead of answering with an error REFUSE.
C19_SendIntentAfterReset ==
    (/\ peer = "sdk"
     /\ lastproc.called
     /\ IsSome(lastsent)
     /\ Unwrap(lastsent).before.state = "Init"
     /\ lastproc.request = Unwrap(lastsent).request
     /\ ~Stale(lastproc)) =>
        Reaches(lastproc, "Deciding")

\* C20: when reading the response fails with a transport error, the
\* operation returns the error and the client machine is in a terminal
\* state, not left in Pending.
C20_TransportErrorTerminal ==
    (cres.op # "none" /\ ~cres.ok /\ cres.err.kind = "Transport") =>
        client_is_terminal(client.state)

\* C21: with several connections served concurrently, the machine of a
\* connection (state, conversation_id, last_message_id) changes only in a
\* step of that connection's own task, processing one of its requests or
\* writing its reply, and no step changes the shared registry, under every
\* interleaving of the tasks.
C21_ConnectionsIndependent ==
    [][/\ registry' = registry
       /\ \A c \in Conns :
             (conns[c].pc # "none" /\ conns'[c].sm # conns[c].sm) =>
                \/ conns'[c].handled = conns[c].handled + 1
                \/ conns[c].pc = "write" /\ conns'[c].pc = "read"]_vars

\* two connections in the middle of their conversations at the same time
C21_Witness ==
    /\ \A c \in {1, 2} :
          /\ conns[c].sm.state = "Negotiating"
          /\ conns[c].sm.conversation_id = Some(conversation_of(c))
          /\ conns[c].handled = 1
    /\ registry = Registry

\* C22: check_replay accepts a message iff |now - timestamp| <= W: a
\* timestamp exactly W milliseconds in the past or in the future is accepted,
\* one W + 1 milliseconds away in either direction is rejected with
\* replay_detected.
C22_ReplayWindowInclusive ==
    Applied("check_replay") =>
        LET W == unwrap_or(calc.args.window_ms, DEFAULT_REPLAY_WINDOW_MS)
            distance == Abs(calc.args.now - calc.args.message_timestamp)
        IN  IF distance <= W
            THEN Unwrap(calc.out) = NoError
            ELSE Unwrap(calc.out).kind = "ReplayDetected"

\* a timestamp exactly W in the future, accepted
C22_Witness ==
    /\ Applied("check_replay")
    /\ calc.args.message_timestamp - calc.args.now = replay_window_ms
    /\ calc.args.window_ms = Some(replay_window_ms)
    /\ Unwrap(calc.out) = NoError

\* C23: a frame whose length prefix equals max_message_size is read and
\* dispatched to the state machine; a frame whose length prefix is
\* max_message_size + 1 is rejected with a validation error and its body is
\* never read.
C23_SizeLimitInclusive ==
    Applied("read_frame") =>
        LET out == Unwrap(calc.out)
        IN  /\ (calc.frame.len <= max_message_size /\ calc.frame.kind = "request") =>
                  out.outcome = "dispatch" /\ out.body_read
            /\ calc.frame.len > max_message_size =>
                  /\ out.outcome = "too_large"
                  /\ out.err.kind = "Validation"
                  /\ ~out.body_read

\* a request of exactly max_message_size bytes, dispatched
C23_Witness ==
    /\ Applied("read_frame")
    /\ calc.frame.len = max_message_size
    /\ calc.frame.kind = "request"
    /\ Unwrap(calc.out).outcome = "dispatch"

\* C24: compute_server_confidence is 0 when the policy fails and the product
\* rho * R * A clamped to [0,1] when it passes and the product is a number;
\* for every input, NaN included, the result is a number in [0,1].
C24_ConfidenceClamped ==
    Applied("compute_server_confidence") =>
        LET a == calc.args
            out == Unwrap(calc.out)
            numbers == a.rho # NaN /\ a.reliability # NaN /\ a.availability # NaN
            product == (((a.rho * a.reliability) \div 100) * a.availability) \div 100
        IN  /\ out \in 0..100
            /\ ~a.policy_passed => out = 0
            /\ (a.policy_passed /\ numbers) =>
                   out = (IF product < 0 THEN 0 ELSE IF product > 100 THEN 100 ELSE product)

C24_Witness ==
    /\ Applied("compute_server_confidence")
    /\ calc.args.policy_passed
    /\ calc.args.rho = 150 /\ calc.args.reliability = 100 /\ calc.args.availability = 100
    /\ Unwrap(calc.out) = 100

\* the latest call among calc.calls that registers id, if there is one
LatestRegistration(id) ==
    LET calls == calc.calls
        at == {i \in 1..Len(calls) : calls[i].capability.id = id}
    IN  IF at = {} THEN None
        ELSE Some(calls[CHOOSE i \in at : \A j \in at : j <= i])

ProbeRequest == Request_new(<<"say">>, 90, 1, 100, 0)

\* C25: after any sequence of register calls the registry holds at most one
\* entry per capability id; capability_ids lists exactly the registered ids,
\* and capabilities, execute and get_reliability answer with the capability,
\* the handler and the (clamped) reliability of the latest registration.
C25_LatestRegistrationWins ==
    Applied("register") =>
        LET reg == Unwrap(calc.out)
        IN  /\ \A i, j \in 1..Len(reg) :
                   reg[i].capability.id = reg[j].capability.id => i = j
            /\ \A id \in RegisterIds :
                   LET latest == LatestRegistration(id)
                       run == execute(reg, id, ProbeRequest, TRUE)
                   IN  IF latest = None
                       THEN /\ id \notin Range(capability_ids(reg))
                            /\ ~run.ok /\ run.err = ProtocolError("Capability not found")
                       ELSE /\ id \in Range(capability_ids(reg))
                            /\ Unwrap(latest).capability \in Range(capabilities(reg))
                            /\ run.ok
                            /\ Unwrap(run.value)[1] = Unwrap(latest).handler
                            /\ Unwrap(latest).reliability = 50 => get_reliability(reg, id) = 50
                            /\ Unwrap(latest).reliability = 150 => get_reliability(reg, id) = 100

\* an id registered twice with a different capability, handler and
\* reliability
C25_Witness ==
    /\ Applied("register")
    /\ Len(calc.calls) = 2
    /\ calc.calls[1].capability.id = calc.calls[2].capability.id
    /\ calc.calls[1].capability # calc.calls[2].capability
    /\ calc.calls[1].handler # calc.calls[2].handler
    /\ calc.calls[1].reliability = 150 /\ calc.calls[2].reliability = 50
    /\ Len(Unwrap(calc.out)) = 1

\* C26: after any sequence of registrations get_reliability answers with a
\* value in [0,1] for every id, and with 0 for an id that is not registered.
C26_ReliabilityInUnitInterval ==
    Applied("register") =>
        \A id \in RegisterIds :
            LET reliability == get_reliability(Unwrap(calc.out), id)
            IN  /\ reliability \in 0..100
                /\ LatestRegistration(id) = None => reliability = 0

\* C27: the request the client builds carries a context whose semantic_hash
\* is semantic_hash(request.intent, request.context), so
\* validate_semantic_hash accepts it.
C27_ContextInvariant ==
    Applied("build_context") =>
        validate_semantic_hash(Unwrap(calc.out).intent, Unwrap(calc.out).context)

\* the words of a string: its maximal runs of non-whitespace characters, in
\* lower case, numbered from the left
WordStarts(s) ==
    {i \in 1..Len(s) : ~IsWhitespace(s[i]) /\ (i = 1 \/ IsWhitespace(s[i - 1]))}
WordEnds(s) ==
    {i \in 1..Len(s) : ~IsWhitespace(s[i]) /\ (i = Len(s) \/ IsWhitespace(s[i + 1]))}
Nth(S, k) == CHOOSE i \in S : Cardinality({j \in S : j <= i}) = k
WordAt(s, k) == to_lowercase(SubSeq(s, Nth(WordStarts(s), k), Nth(WordEnds(s), k)))
SameWords(s, t) ==
    /\ Cardinality(WordStarts(s)) = Cardinality(WordStarts(t))
    /\ \A k \in 1..Cardinality(WordStarts(s)) : WordAt(s, k) = WordAt(t, k)

\* C28: two intents with the same words up to case and whitespace, with
\* contents that have the same words up to case and whitespace, get the same
\* semantic hash, whatever the context types and the stored hashes are.
C28_HashIgnoresNoise ==
    Applied("semantic_hash") =>
        ((SameWords(calc.a.intent, calc.b.intent)
            /\ SameWords(calc.a.context.content, calc.b.context.content))
         => Unwrap(calc.out)[1] = Unwrap(calc.out)[2])

C28_Witness ==
    /\ Applied("semantic_hash")
    /\ calc.a.intent = <<"a", " ", "b">> /\ calc.b.intent = <<"A", " ", "\n", "B", " ">>
    /\ calc.a.context.content = <<"U", " ", "a">>
    /\ calc.b.context.content = <<"u", "\n", "\n", "A">>
    /\ calc.a.context.context_type # calc.b.context.context_type
    /\ calc.a.context.semantic_hash # calc.b.context.semantic_hash
    /\ Unwrap(calc.out)[1] = Unwrap(calc.out)[2]
    /\ Unwrap(calc.out)[1] = Sha256Hex(<<"a", " ", "b", "|", "|", "u", " ", "a">>)

\* C29: a request that carries the output of sign_message verifies under the
\* verifying key of the signing key; the signed bytes are the canonical form
\* of the request without its signature field; and once the intent is
\* changed, verification under the matching key fails with SignatureInvalid.
C29_SignThenVerify ==
    Applied("sign_message") =>
        LET out == Unwrap(calc.out)
            matching == calc.verifying_key.pair = calc.signing_key.pair
            signed_bytes == out.signature[2].message
        IN  /\ matching => out.verified = NoError
            /\ \A i \in 1..Len(signed_bytes) : signed_bytes[i][1] # "signature"
            /\ \E i \in 1..Len(signed_bytes) : signed_bytes[i] = <<"intent", calc.request.intent>>
            /\ (matching /\ calc.new_intent # calc.request.intent)
                   => out.tampered = SignatureInvalid

C29_Witness ==
    /\ Applied("sign_message")
    /\ calc.verifying_key.pair = calc.signing_key.pair
    /\ calc.request.signature # None
    /\ calc.new_intent # calc.request.intent
    /\ Unwrap(calc.out).verified = NoError
    /\ Unwrap(calc.out).tampered = SignatureInvalid

\* C30: a fresh request whose conversation_id differs from the one the
\* machine has set, or that has no in_response_to although the machine has
\* sent a response in this conversation, fails validation: process_request
\* returns the validation error and leaves the machine in Failed.
C30_ContinuityEnforced ==
    LET sm == lastproc.before
        request == lastproc.request
        mismatch == /\ IsSome(sm.conversation_id)
                    /\ Unwrap(sm.conversation_id) # request.conversation_id
        missing == /\ IsSome(sm.conversation_id)
                   /\ IsSome(sm.last_message_id)
                   /\ request.in_response_to = None
    IN  (/\ lastproc.called
         /\ Abs(lastproc.now - request.timestamp) <= replay_window_ms
         /\ mismatch \/ missing) =>
            /\ lastproc.ret.sm.state = "Failed"
            /\ lastproc.ret.err =
                   (IF mismatch THEN ValidationError("Conversation ID mismatch")
                    ELSE ValidationError("Missing in_response_to for follow-up"))

\* a call of process_request that returned a response, and what the
\* interpreter found for its request
Answered == Applied("process_request") /\ Unwrap(calc.out).ok
Answer == Unwrap(Unwrap(calc.out).response)
Found == registry_interpret(registry, calc.request.intent)

\* C31: the answer is PROPOSE exactly when the policy passes, the EXECUTE
\* condition fails, the interpreter returned an alternative and phi_s <
\* tau_exec; a PROPOSE lists every interpreter alternative, in interpreter
\* order, with its capability_id and score; and when the policy passes with
\* phi_s >= tau_exec and phi_c < tau_accept the answer is CLARIFY, with or
\* without alternatives.
C31_ProposeExactly ==
    Answered =>
        LET phi_s == Answer.confidence
            phi_c == calc.request.confidence
            th == calc.thresholds
            alts == Found.alternatives
        IN  /\ Answer.action = "PROPOSE" <=>
                   (/\ calc.policy
                    /\ ~(phi_s >= th.tau_exec /\ phi_c >= th.tau_accept)
                    /\ alts # <<>>
                    /\ phi_s < th.tau_exec)
            /\ Answer.action = "PROPOSE" =>
                   /\ IsSome(Answer.alternatives)
                   /\ Len(Unwrap(Answer.alternatives)) = Len(alts)
                   /\ \A i \in 1..Len(alts) :
                          /\ Unwrap(Answer.alternatives)[i].capability_id = alts[i].capability.id
                          /\ Unwrap(Answer.alternatives)[i].confidence = alts[i].confidence
            /\ (calc.policy /\ phi_s >= th.tau_exec /\ phi_c < th.tau_accept) =>
                   Answer.action = "CLARIFY"

\* a CLARIFY although an alternative exists: phi_s is at or above tau_exec
\* and phi_c is below tau_accept
C31_Witness ==
    /\ Answered
    /\ calc.policy
    /\ Found.alternatives # <<>>
    /\ Answer.confidence >= calc.thresholds.tau_exec
    /\ calc.request.confidence < calc.thresholds.tau_accept
    /\ Answer.action = "CLARIFY"

\* C32: when the interpreter selects no capability, phi_s is 0, there are no
\* alternatives and the answer is CLARIFY with at least one question, under
\* every threshold configuration; and an EXECUTE answer is given only for a
\* selected capability, its result being the output of that capability's
\* handler.
C32_NoCapabilityClarifies ==
    Answered =>
        /\ Found.capability = None =>
               /\ Answer.confidence = 0
               /\ Found.alternatives = <<>>
               /\ Answer.action = "CLARIFY"
               /\ IsSome(Unwrap(Answer.action_metadata).questions)
               /\ Unwrap(Unwrap(Answer.action_metadata).questions) # <<>>
        /\ Answer.action = "EXECUTE" =>
               /\ IsSome(Found.capability)
               /\ Unwrap(Answer.action_metadata).result
                     = execute(registry, Unwrap(Found.capability).id, calc.request, TRUE).value

C34_SelectedAndAlternatives ==
    Applied("interpret") =>
        LET caps == calc.capabilities
            out == Unwrap(calc.out)
            alts == out.alternatives
            ScoreOf(cap) == score(tokenize(calc.intent), cap)
            top == CHOOSE m \in {0} \cup {ScoreOf(c) : c \in Range(caps)} :
                      \A c \in Range(caps) : ScoreOf(c) <= m /\ (caps = <<>> => m = 0)
            listed == {alts[i].capability : i \in 1..Len(alts)}
            left_out == {c \in Range(caps) : c \notin listed /\ Some(c) # out.capability}
        IN  /\ out.raw_confidence = top
            /\ out.capability = None <=> (caps = <<>> \/ top < min_score)
            /\ IsSome(out.capability) =>
                   /\ Unwrap(out.capability) \in Range(caps)
                   /\ ScoreOf(Unwrap(out.capability)) = top
            /\ Len(alts) <= 3
            /\ \A i \in 1..Len(alts) :
                   /\ alts[i].capability \in Range(caps)
                   /\ alts[i].confidence = ScoreOf(alts[i].capability)
                   /\ alts[i].confidence >= min_score
                   /\ Some(alts[i].capability) # out.capability
                   /\ \A j \in 1..Len(alts) : i < j =>
                          /\ alts[i].confidence >= alts[j].confidence
                          /\ alts[i].capability # alts[j].capability
            /\ \A c \in left_out :
                   /\ \A i \in 1..Len(alts) : ScoreOf(c) <= alts[i].confidence
                   /\ Len(alts) < 3 => ScoreOf(c) < min_score

\* five capabilities, four of which reach min_score: one selected, three
\* listed, and one that scores too low left out
C34_Witness ==
    /\ Applied("interpret")
    /\ Len(calc.capabilities) = 5
    /\ calc.intent = <<"x", "y">>
    /\ IsSome(Unwrap(calc.out).capability)
    /\ Len(Unwrap(calc.out).alternatives) = 3
    /\ calc.capabilities[1].id = <<"c5">>

\* C35: the score of a capability is the share of its distinct keywords that
\* occur in the intent, times match_weight, and 0 when it has no keyword.
C35_ScoreOverSet ==
    Applied("score") =>
        LET K == Range(capability_keywords(calc.cap))
            T == Range(tokenize(calc.intent))
        IN  Unwrap(calc.out) =
               (IF K = {} THEN 0
                ELSE (((Cardinality(K \cap T) * 100) \div Cardinality(K)) * match_weight) \div 100)

\* C36: of two registered capabilities with equal scores, the one registered
\* earlier ranks first in the result of the registry's interpret, and is the
\* selected one when they tie for the top.
C36_RegistrationOrderBreaksTies ==
    Applied("registry_interpret") =>
        LET caps == calc.registered
            out == Unwrap(calc.out)
            ranking == (IF IsSome(out.capability) THEN <<Unwrap(out.capability)>> ELSE <<>>)
                       \o [i \in 1..Len(out.alternatives) |-> out.alternatives[i].capability]
            ScoreOf(cap) == score(tokenize(calc.intent), cap)
            Rank(cap) == CHOOSE r \in 1..Len(ranking) : ranking[r] = cap
        IN  \A i, j \in 1..Len(caps) :
               (/\ i < j
                /\ ScoreOf(caps[i]) = ScoreOf(caps[j])
                /\ caps[i] \in Range(ranking)
                /\ caps[j] \in Range(ranking))
               => Rank(caps[i]) < Rank(caps[j])

\* C37: a call of process_request runs at most one handler, that of the
\* capability the interpreter selected, and only when the decided action is
\* EXECUTE; a call that ends in a validation or replay error, or that
\* answers CLARIFY, PROPOSE or REFUSE, runs none.
C37_HandlerOnlyOnExecute ==
    lastproc.called =>
        LET ret == lastproc.ret
            request == lastproc.request
            found == registry_interpret(registry, request.intent)
            conf == server_confidence(registry, request, found, lastproc.policy)
            decided == decide_action(conf.phi_s, request.confidence,
                                     ServerConfig_default.thresholds,
                                     found.alternatives # <<>>
                                        /\ conf.phi_s < ServerConfig_default.thresholds.tau_exec,
                                     ~conf.policy_passed, FALSE)
        IN  /\ IsSome(ret.invoked) =>
                  /\ IsSome(found.capability)
                  /\ Unwrap(ret.invoked) = Unwrap(found.capability).id
                  /\ decided = "EXECUTE"
                  /\ \E k \in 1..Len(ret.path) : ret.path[k] = "Deciding"
                  /\ ret.sm.state = "Done"
                  /\ ret.ok => Unwrap(ret.response).action = "EXECUTE"
            /\ (ret.ok /\ Unwrap(ret.response).action \in {"CLARIFY", "PROPOSE", "REFUSE"})
                  => ret.invoked = None
            /\ (~ret.ok /\ ret.err.kind \in {"Validation", "ReplayDetected"})
                  => ret.invoked = None

\* a request that ran its handler after one that was rejected in validation
C37_Witness ==
    /\ lastproc.called
    /\ IsSome(lastproc.ret.invoked)
    /\ lastproc.prev.called
    /\ lastproc.prev.err \in {"Validation", "ReplayDetected"}
    /\ lastproc.prev.invoked = None

\* C38: a call of process_request never leaves the machine in Validating,
\* Interpreting or Deciding: it returns with the machine in Done, Negotiating
\* or Failed, or, when the call was rejected at entry, with the machine as it
\* was; and the connection loop reads a frame only with the machine in
\* Received or Negotiating.
C38_NoIntermediateStateLeft ==
    /\ lastproc.called =>
          LET ret == lastproc.ret
          IN  /\ ret.sm.state \notin {"Validating", "Interpreting", "Deciding"}
              /\ \/ ret.sm.state \in {"Done", "Negotiating", "Failed"}
                 \/ /\ ~ret.ok
                    /\ ret.path = <<lastproc.before.state>>
                    /\ ret.sm = lastproc.before
    /\ server.state \notin {"Validating", "Interpreting", "Deciding"}
    /\ spc = "read" => server.state \in {"Received", "Negotiating"}

\* the loop is about to read with the machine in Negotiating, the call before
\* the last having ended in Failed
C38_Witness ==
    /\ AtRead
    /\ server.state = "Negotiating"
    /\ lastproc.called
    /\ lastproc.ret.ok
    /\ lastproc.ret.sm.state = "Negotiating"
    /\ lastproc.prev.called
    /\ lastproc.prev.err = "ReplayDetected"

\* C39: a machine in Received has neither conversation_id nor
\* last_message_id; a last_message_id that is set is the message_id of the
\* most recent response process_request returned with Ok; and a request that
\* enters validation finds both fields unset.
C39_ReceivedHasNoIds ==
    /\ server.state = "Received" =>
          server.conversation_id = None /\ server.last_message_id = None
    /\ IsSome(server.last_message_id) =>
          /\ lastproc.called
          /\ IF lastproc.ret.ok
             THEN server.last_message_id = Some(Unwrap(lastproc.ret.response).message_id)
             ELSE /\ lastproc.prev.called
                  /\ lastproc.prev.ok
                  /\ server.last_message_id = lastproc.prev.message_id
    /\ (lastproc.called /\ Len(lastproc.ret.path) >= 2) =>
          /\ lastproc.ret.path[2] = "Validating"
          /\ lastproc.before.conversation_id = None
          /\ lastproc.before.last_message_id = None

\* a call rejected at entry has just returned: the machine still holds the id
\* of the response before it
C39_Witness ==
    /\ spc = "write"
    /\ lastproc.called
    /\ ~lastproc.ret.ok
    /\ IsSome(server.last_message_id)
    /\ IsSome(server.conversation_id)
    /\ lastproc.prev.called
    /\ server.last_message_id = lastproc.prev.message_id

\* C40: a client operation that returns a protocol error because its event
\* is not legal in the current state leaves the machine's state,
\* conversation_id and last_response as they were, and hands no request to
\* the connection.
C40_IllegalEventChangesNothing ==
    LET out == Unwrap(calc.out)
        Illegal == /\ ~out.ok
                   /\ out.err \in {ProtocolError("Invalid transition"),
                                   ProtocolError("Invalid state transition")}
    IN  /\ (Applied("client_op") /\ Illegal) =>
               /\ out.sm = calc.sm
               /\ calc.op # "abandon" => out.request = None
        /\ (Applied("on_response_received") /\ Illegal) => out.sm = calc.sm

====
